---- MODULE Spec2Model ----
(***************************************************************************)
(* A model of the perfect-validator core: the data validator               *)
(* (validateAgainstModel), the model structural validator                  *)
(* (validateDataModel) and the model (de)serialization layer               *)
(* (serializeValidationModel / deserializeValidationModel /                *)
(* deserializeFunction).                                                   *)
(*                                                                         *)
(* JavaScript values are tagged records.  A JavaScript string is a         *)
(* sequence of lexemes (TLA+ strings), so that concatenation, includes(),  *)
(* lastIndexOf() and split() are computed on the text.  A number n is      *)
(* held in thousandths (Num(1500) is 1.5), so that fractional digits are   *)
(* computed from the value.                                                *)
(***************************************************************************)
EXTENDS Integers, Sequences, FiniteSets, TLC

VARIABLES pc, model, data, allowUnknown, result, second, serialized, loaded,
          loadedResult, fnText, fnResult, collection, answer,
          instance, databases, tasks

vars == <<pc, model, data, allowUnknown, result, second, serialized, loaded,
          loadedResult, fnText, fnResult, collection, answer,
          instance, databases, tasks>>

\* The state of the process around the validator: the static PV.instance, the
\* storages handed to PV.getInstance, and the calls in flight
processVars == <<instance, databases, tasks>>

---------------------------------------------------------------------------
(* JavaScript values                                                       *)

Undefined == [t |-> "undefined"]
Null == [t |-> "null"]
Bool(b) == [t |-> "boolean", b |-> b]
Num(n) == [t |-> "number", k |-> "fin", n |-> n]
NaN == [t |-> "number", k |-> "nan", n |-> 0]
Str(s) == [t |-> "string", s |-> s]
S(w) == Str(<<w>>)
Arr(items) == [t |-> "array", items |-> items]
Obj(entries) == [t |-> "object", entries |-> entries]
KV(key, v) == [k |-> <<key>>, v |-> v]

\* A whole number w as a Num
Whole(w) == Num(w * 1000)

True == Bool(TRUE)
False == Bool(FALSE)

IsUndefined(v) == v.t = "undefined"
IsFunction(v) == v.t = "function"

\* typeof v
TypeOf(v) ==
  CASE v.t = "undefined" -> "undefined"
    [] v.t = "null" -> "object"
    [] v.t = "array" -> "object"
    [] OTHER -> v.t

\* ToBoolean(v): the test of `if (v)`, `!v`, `a || b`, `a ? b : c`
Truthy(v) ==
  CASE v.t = "undefined" -> FALSE
    [] v.t = "null" -> FALSE
    [] v.t = "boolean" -> v.b
    [] v.t = "number" -> v.k = "fin" /\ v.n # 0
    [] v.t = "string" -> v.s # <<>>
    [] OTHER -> TRUE

\* a === b for primitives; two distinct objects are never ===
StrictEq(a, b) ==
  CASE a.t # b.t -> FALSE
    [] a.t = "number" -> a.k = "fin" /\ b.k = "fin" /\ a.n = b.n
    [] a.t \in {"object", "array", "function"} -> FALSE
    [] OTHER -> a = b

\* Array.prototype.includes (SameValueZero: NaN is found)
Includes(items, v) ==
  \E i \in 1..Len(items) :
     \/ StrictEq(items[i], v)
     \/ items[i].t = "number" /\ v.t = "number" /\ items[i].k = "nan" /\ v.k = "nan"

\* ToNumber(v) for the operands of < and >; strings of this model are not numeric
ToNumber(v) ==
  CASE v.t = "number" -> v
    [] v.t = "null" -> Num(0)
    [] v.t = "boolean" -> IF v.b THEN Whole(1) ELSE Num(0)
    [] v.t = "string" -> IF v.s = <<>> THEN Num(0) ELSE NaN
    [] OTHER -> NaN

\* a < b on numbers (after ToNumber); false when either is NaN
JsLt(a, b) ==
  LET x == ToNumber(a)
      y == ToNumber(b)
  IN x.k = "fin" /\ y.k = "fin" /\ x.n < y.n

JsGt(a, b) == JsLt(b, a)

\* Object.keys(o) and o[key] of a plain object
Keys(o) == [i \in 1..Len(o.entries) |-> o.entries[i].k]

HasKey(o, key) == \E i \in 1..Len(o.entries) : o.entries[i].k = key

GetKey(o, key) ==
  IF o.t = "object" /\ HasKey(o, key)
  THEN o.entries[CHOOSE i \in 1..Len(o.entries) : o.entries[i].k = key].v
  ELSE Undefined

\* o.name for a property whose name is one lexeme
Prop(o, name) == GetKey(o, <<name>>)

\* o[key] = v: an existing key keeps its place, a new key is added last
SetKey(o, key, v) ==
  IF HasKey(o, key)
  THEN Obj([i \in 1..Len(o.entries) |->
              IF o.entries[i].k = key THEN [k |-> key, v |-> v] ELSE o.entries[i]])
  ELSE Obj(Append(o.entries, [k |-> key, v |-> v]))

\* The decimal digits of an array index, and back
IndexText(i) == CASE i = 0 -> "0" [] i = 1 -> "1" [] i = 2 -> "2" [] OTHER -> "3"

IsDigits(w) == w \in {"0", "1", "2", "3"}

ParseInt(w) == CASE w = "0" -> 0 [] w = "1" -> 1 [] w = "2" -> 2 [] OTHER -> 3

---------------------------------------------------------------------------
(* Path Resolver                                                           *)

IsSeparator(w) == w \in {".", "[", "]"}

\* path.split(/\.|\[|\]/).filter(Boolean)
RECURSIVE SplitPath(_)
SplitPath(path) ==
  IF path = <<>> THEN <<>>
  ELSE IF IsSeparator(Head(path)) THEN SplitPath(Tail(path))
  ELSE <<Head(path)>> \o SplitPath(Tail(path))

\* current[part]: an array element by index, an object property by name
Member(current, part) ==
  CASE current.t = "array" /\ IsDigits(part) ->
         IF ParseInt(part) < Len(current.items)
         THEN current.items[ParseInt(part) + 1] ELSE Undefined
    [] current.t = "object" -> GetKey(current, <<part>>)
    [] OTHER -> Undefined

RECURSIVE Walk(_, _)
Walk(current, parts) ==
  IF parts = <<>> THEN current
  ELSE IF ~Truthy(current) THEN Undefined
  ELSE Walk(Member(current, Head(parts)), Tail(parts))

getNestedValue(obj, path) == Walk(obj, SplitPath(path))

\* text.includes('.')
IncludesDot(text) == \E i \in 1..Len(text) : text[i] = "."

\* text.lastIndexOf('.'), as a position of the sequence (0 when there is none)
LastDot(text) ==
  IF IncludesDot(text)
  THEN CHOOSE i \in 1..Len(text) :
         text[i] = "." /\ \A j \in (i + 1)..Len(text) : text[j] # "."
  ELSE 0

\* path.substring(0, path.lastIndexOf('.')); substring(0, -1) is ''
ParentOf(path) == IF LastDot(path) = 0 THEN <<>> ELSE SubSeq(path, 1, LastDot(path) - 1)

\* parent ? `${parent}.${name}` : name
Join(parent, name) == IF parent # <<>> THEN parent \o <<".">> \o name ELSE name

\* A variant of the element path that leaves the index out
ListPath(path, index) == path

\* `${path}[${index}]`
ItemPath(path, index) == path \o <<"[", IndexText(index), "]">>

---------------------------------------------------------------------------
(* Functions held in a model: their source text and what a call does       *)
(*                                                                         *)
(* A function is kept by its form, its parameter names and the lexemes of  *)
(* its body; FnToString gives Function.prototype.toString(), and Call runs *)
(* the body as the JavaScript engine does.                                 *)

Whitespace == {" ", "\n"}

\* Lexemes of [a-zA-Z0-9_]+ that may name a parameter or a function
Identifiers == {"v", "d", "all", "f", "anonymous", "async"}

\* Lexemes of [a-zA-Z0-9_]+ that are reserved words
ReservedWords == {"function", "return", "throw", "while", "true", "false", "if"}

\* Expression lexemes over the parameters v (own value), d (dependent value)
\* and all (full data)
Expressions ==
  {"d!==undefined", "v<d", "v>d", "d>1000", "d<18", "v!=='CASH'", "d.length>0",
   "d<21&&v===true", "v>0", "true", "false"}

\* Whether a lexeme has a character '=' or '>' in it
HasEqOrGt(w) ==
  w \in {"=>", "d!==undefined", "v>d", "d>1000", "v!=='CASH'", "d.length>0",
         "d<21&&v===true", "v>0"}

IsWordLexeme(w) == w \in Identifiers \cup ReservedWords

Fn(form, name, params, body) ==
  [t |-> "function", form |-> form, name |-> name, params |-> params, body |-> body]

\* (v, d) => expr
Arrow(params, expr) == Fn("arrowExpr", <<>>, params, expr)
\* (v, d) => { statements }
ArrowBlock(params, body) == Fn("arrowBlock", <<>>, params, body)
\* d => expr
BareArrow(param, expr) == Fn("bareArrowExpr", <<>>, <<param>>, expr)
\* function name(v, d) { statements }
Classic(name, params, body) == Fn("classic", name, params, body)
\* name(v, d) { statements }, a method of an object literal
Method(name, params, body) == Fn("method", <<name>>, params, body)

RECURSIVE JoinParams(_, _)
JoinParams(params, sep) ==
  IF params = <<>> THEN <<>>
  ELSE IF Len(params) = 1 THEN <<params[1]>>
  ELSE <<params[1]>> \o sep \o JoinParams(Tail(params), sep)

\* fn.toString(): the source text as written; for a function built by
\* new Function, "function anonymous(a,b\n) {\nbody\n}"
FnToString(fn) ==
  CASE fn.form = "arrowExpr" ->
         <<"(">> \o JoinParams(fn.params, <<",", " ">>) \o <<")", " ", "=>", " ">> \o fn.body
    [] fn.form = "arrowBlock" ->
         <<"(">> \o JoinParams(fn.params, <<",", " ">>) \o <<")", " ", "=>", " ", "{">>
           \o fn.body \o <<"}">>
    [] fn.form = "bareArrowExpr" -> fn.params \o <<" ", "=>", " ">> \o fn.body
    [] fn.form = "classic" ->
         <<"function">> \o (IF fn.name = <<>> THEN <<" ">> ELSE <<" ">> \o fn.name)
           \o <<"(">> \o JoinParams(fn.params, <<",", " ">>) \o <<")", " ", "{">>
           \o fn.body \o <<"}">>
    [] fn.form = "method" ->
         fn.name \o <<"(">> \o JoinParams(fn.params, <<",", " ">>) \o <<")", " ", "{">>
           \o fn.body \o <<"}">>
    [] OTHER ->
         <<"function", " ", "anonymous", "(">> \o JoinParams(fn.params, <<",">>)
           \o <<"\n", ")", " ", "{", "\n">> \o fn.body \o <<"\n", "}">>

\* The value of parameter `name` in a call with arguments args
Arg(fn, args, name) ==
  IF \E i \in 1..Len(fn.params) : fn.params[i] = name /\ i <= Len(args)
  THEN args[CHOOSE i \in 1..Len(fn.params) : fn.params[i] = name /\ i <= Len(args)]
  ELSE Undefined

IsParam(fn, name) == \E i \in 1..Len(fn.params) : fn.params[i] = name

Returned(v) == [kind |-> "return", v |-> v]
Thrown == [kind |-> "throw", v |-> Undefined]
Hangs == [kind |-> "hang", v |-> Undefined]

\* Evaluation of an expression lexeme: a free name is a ReferenceError, a
\* property of undefined or null a TypeError
Eval(fn, args, e) ==
  LET Needs(names) == \A n \in names : IsParam(fn, n)
      Value(v, d) ==
          CASE e = "d!==undefined" -> Returned(Bool(~IsUndefined(d)))
            [] e = "v<d" -> Returned(Bool(JsLt(v, d)))
            [] e = "v>d" -> Returned(Bool(JsLt(d, v)))
            [] e = "d>1000" -> Returned(Bool(JsLt(Whole(1000), d)))
            [] e = "d<18" -> Returned(Bool(JsLt(d, Whole(18))))
            [] e = "v>0" -> Returned(Bool(JsLt(Num(0), v)))
            [] e = "v!=='CASH'" -> Returned(Bool(~StrictEq(v, S("CASH"))))
            [] e = "d.length>0" ->
                 IF d.t \in {"undefined", "null"} THEN Thrown
                 ELSE IF d.t = "array" THEN Returned(Bool(Len(d.items) > 0))
                 ELSE IF d.t = "string" THEN Returned(Bool(d.s # <<>>))
                 ELSE Returned(False)
            [] e = "d<21&&v===true" ->
                 Returned(Bool(JsLt(d, Whole(21)) /\ StrictEq(v, True)))
            [] e = "true" -> Returned(True)
            [] e = "false" -> Returned(False)
            [] OTHER -> Thrown
  IN IF \/ e \in {"d!==undefined", "d>1000", "d<18", "d.length>0"} /\ ~Needs({"d"})
        \/ e \in {"v<d", "v>d", "d<21&&v===true"} /\ ~Needs({"v", "d"})
        \/ e \in {"v!=='CASH'", "v>0"} /\ ~Needs({"v"})
     THEN Thrown
     ELSE Value(Arg(fn, args, "v"), Arg(fn, args, "d"))

RECURSIVE SkipSpaces(_)
SkipSpaces(ts) ==
  IF ts # <<>> /\ Head(ts) = " " THEN SkipSpaces(Tail(ts)) ELSE ts

RECURSIVE SkipBlanks(_)
SkipBlanks(ts) ==
  IF ts # <<>> /\ Head(ts) \in Whitespace THEN SkipBlanks(Tail(ts)) ELSE ts

\* The text after the end of a // comment (after the next line break)
RECURSIVE AfterLine(_)
AfterLine(ts) ==
  IF ts = <<>> THEN <<>>
  ELSE IF Head(ts) = "\n" THEN Tail(ts)
  ELSE AfterLine(Tail(ts))

\* The text after the next ';'
RECURSIVE AfterSemicolon(_)
AfterSemicolon(ts) ==
  IF ts = <<>> THEN <<>>
  ELSE IF Head(ts) = ";" THEN Tail(ts)
  ELSE AfterSemicolon(Tail(ts))

StartsWith(ts, prefix) ==
  Len(ts) >= Len(prefix) /\ SubSeq(ts, 1, Len(prefix)) = prefix

Drop(ts, n) == SubSeq(ts, n + 1, Len(ts))

EmptyLoop == <<"while", "(", "true", ")", "{", "}">>

\* Running a statement list.  `return` followed by a line break returns
\* undefined (automatic semicolon insertion); a // comment runs to the end of
\* its line; the end of the body returns undefined.
RECURSIVE Exec(_, _, _)
Exec(fn, args, ts) ==
  LET \* The expression of the statement at the head of ts: of `return e`,
      \* of `if ( e ) statement ;`, of the expression statement `e`
      expr == IF Head(ts) = "if" THEN ts[3]
              ELSE IF Head(ts) = "return" THEN Head(SkipSpaces(Tail(ts)))
              ELSE Head(ts)
      Statement(r) ==
        IF Head(ts) = "return" \/ r.kind # "return" THEN r
        ELSE IF Head(ts) = "if" /\ ~Truthy(r.v)
        THEN Exec(fn, args, AfterSemicolon(Drop(ts, 4)))
        ELSE Exec(fn, args, IF Head(ts) = "if" THEN Drop(ts, 4) ELSE Tail(ts))
  IN IF ts = <<>> THEN Returned(Undefined)
     ELSE IF Head(ts) \in Whitespace \cup {";"} THEN Exec(fn, args, Tail(ts))
     ELSE IF Head(ts) = "//" THEN Exec(fn, args, AfterLine(Tail(ts)))
     ELSE IF Head(ts) = "throw" THEN Thrown
     ELSE IF StartsWith(ts, EmptyLoop) THEN Hangs
     ELSE IF Head(ts) = "return"
               /\ (SkipSpaces(Tail(ts)) = <<>> \/ expr \notin Expressions)
     THEN Returned(Undefined)
     ELSE IF Head(ts) \in {"return", "if"} \cup Expressions
     THEN Statement(Eval(fn, args, expr))
     ELSE Thrown

\* fn(...args): an arrow function with an expression body returns its value
Call(fn, args) ==
  Exec(fn, args,
       IF fn.form \in {"arrowExpr", "bareArrowExpr"}
       THEN <<"return", " ">> \o SkipBlanks(fn.body)
       ELSE fn.body)

\* Whether a statement list parses: new Function throws a SyntaxError otherwise
RECURSIVE BodyParses(_)
BodyParses(ts) ==
  IF ts = <<>> THEN TRUE
  ELSE IF Head(ts) \in Whitespace \cup {";"} THEN BodyParses(Tail(ts))
  ELSE IF Head(ts) = "//" THEN BodyParses(AfterLine(Tail(ts)))
  ELSE IF Head(ts) = "return" THEN
    LET rest == SkipSpaces(Tail(ts))
    IN IF rest # <<>> /\ Head(rest) \in Expressions
       THEN BodyParses(Tail(rest)) ELSE BodyParses(rest)
  ELSE IF Head(ts) = "throw" THEN
    LET rest == SkipSpaces(Tail(ts))
    IN rest # <<>> /\ Head(rest) \in Expressions /\ BodyParses(Tail(rest))
  ELSE IF StartsWith(ts, EmptyLoop) THEN BodyParses(Drop(ts, Len(EmptyLoop)))
  ELSE IF Head(ts) = "if" THEN
    /\ Len(ts) >= 4 /\ ts[2] = "(" /\ ts[3] \in Expressions /\ ts[4] = ")"
    /\ SkipBlanks(Drop(ts, 4)) # <<>>
    /\ Head(SkipBlanks(Drop(ts, 4))) \in {"return", "throw"} \cup Expressions
    /\ BodyParses(Drop(ts, 4))
  ELSE IF Head(ts) \in Expressions THEN
    LET rest == SkipSpaces(Tail(ts))
    IN (rest = <<>> \/ Head(rest) \in {";", "\n"}) /\ BodyParses(rest)
  ELSE FALSE

---------------------------------------------------------------------------
(* Function Serializer / Deserializer                                      *)

\* text.replace(/\n/g, ' ')
ReplaceNewlines(ts) == [i \in 1..Len(ts) |-> IF ts[i] = "\n" THEN " " ELSE ts[i]]

RECURSIVE TrimEnd(_)
TrimEnd(ts) ==
  IF ts # <<>> /\ ts[Len(ts)] \in Whitespace THEN TrimEnd(SubSeq(ts, 1, Len(ts) - 1)) ELSE ts

\* text.trim()
Trim(ts) == TrimEnd(SkipBlanks(ts))

\* { __type: 'function', code, original }
serializeFunction(fn) ==
  LET text == Trim(ReplaceNewlines(FnToString(fn)))
  IN Obj(<<KV("__type", S("function")), KV("code", Str(text)), KV("original", Str(text))>>)

RECURSIVE SkipWords(_)
SkipWords(ts) ==
  IF ts # <<>> /\ IsWordLexeme(Head(ts)) THEN SkipWords(Tail(ts)) ELSE ts

\* text.replace(/^function\s*[a-zA-Z0-9_]*\s*/, '')
StripFunctionKeyword(ts) ==
  IF ts # <<>> /\ Head(ts) = "function"
  THEN SkipBlanks(SkipWords(SkipBlanks(Tail(ts))))
  ELSE ts

\* text.replace(/function anonymous/, ''): the first occurrence only
RECURSIVE RemoveFunctionAnonymous(_)
RemoveFunctionAnonymous(ts) ==
  IF ts = <<>> THEN <<>>
  ELSE IF StartsWith(ts, <<"function", " ", "anonymous">>) THEN Drop(ts, 3)
  ELSE <<Head(ts)>> \o RemoveFunctionAnonymous(Tail(ts))

\* text.replace(/\s+/g, ' ')
RECURSIVE CollapseSpaces(_)
CollapseSpaces(ts) ==
  IF ts = <<>> THEN <<>>
  ELSE IF Head(ts) \in Whitespace THEN <<" ">> \o CollapseSpaces(SkipBlanks(ts))
  ELSE <<Head(ts)>> \o CollapseSpaces(Tail(ts))

Normalize(text) ==
  Trim(CollapseSpaces(RemoveFunctionAnonymous(StripFunctionKeyword(Trim(text)))))

NoMatch == [ok |-> FALSE, params |-> <<>>, noParams |-> FALSE, rest |-> <<>>]

\* \s*=>\s* at the head of ts
ArrowRest(ts) ==
  LET a == SkipSpaces(ts)
  IN IF a # <<>> /\ Head(a) = "=>"
     THEN [ok |-> TRUE, rest |-> SkipSpaces(Tail(a))]
     ELSE [ok |-> FALSE, rest |-> <<>>]

\* \{([\s\S]*)\}\s*$ on what is left of a trimmed text
IsBlock(r) == Len(r) >= 2 /\ r[1] = "{" /\ r[Len(r)] = "}"

BlockBody(r) == SubSeq(r, 2, Len(r) - 1)

\* [^=>\s]+ : the lexemes at the head of ts with no '=', '>' or white space
RECURSIVE PlainPrefix(_)
PlainPrefix(ts) ==
  IF ts # <<>> /\ Head(ts) \notin Whitespace /\ ~HasEqOrGt(Head(ts))
  THEN <<Head(ts)>> \o PlainPrefix(Tail(ts))
  ELSE <<>>

\* What follows the arrow: \{([\s\S]*)\} of the block pattern, (.+?) of the
\* expression pattern
TailOk(block, r) == IF block THEN IsBlock(r) ELSE r # <<>>

\* ^\s*(?:\((.*?)\)|([^=>\s]+))\s*=>\s* followed by a tail that is TailOk:
\* the lazy (.*?) stops at the first ')' after which the rest matches; the
\* second alternative is tried only when the first fails.  noParams is the case
\* `paramsWithParens || singleParam` of an empty parenthesised list: undefined.
ArrowHeader(T, block) ==
  LET closes == {j \in 2..Len(T) :
                   /\ T[1] = "(" /\ T[j] = ")"
                   /\ ArrowRest(Drop(T, j)).ok
                   /\ TailOk(block, ArrowRest(Drop(T, j)).rest)}
      j0 == CHOOSE j \in closes : \A i \in closes : j <= i
      bare == PlainPrefix(T)
  IN IF closes # {}
     THEN [ok |-> TRUE, params |-> SubSeq(T, 2, j0 - 1), noParams |-> j0 = 2,
           rest |-> ArrowRest(Drop(T, j0)).rest]
     ELSE IF bare # <<>> /\ ArrowRest(Drop(T, Len(bare))).ok
               /\ TailOk(block, ArrowRest(Drop(T, Len(bare))).rest)
     THEN [ok |-> TRUE, params |-> bare, noParams |-> FALSE,
           rest |-> ArrowRest(Drop(T, Len(bare))).rest]
     ELSE NoMatch

\* /^\s*(?:\((.*?)\)|([^=>\s]+))\s*=>\s*\{([\s\S]*)\}\s*$/
blockArrowMatch(T) == ArrowHeader(T, TRUE)

\* /^\s*(?:\((.*?)\)|([^=>\s]+))\s*=>\s*(.+?)\s*$/
simpleArrowMatch(T) == ArrowHeader(T, FALSE)

\* /^\s*\((.*?)\)\s*\{([\s\S]*)\}\s*$/
regularFnMatch(T) ==
  LET closes == {j \in 2..Len(T) :
                   T[1] = "(" /\ T[j] = ")" /\ IsBlock(SkipSpaces(Drop(T, j)))}
      j0 == CHOOSE j \in closes : \A i \in closes : j <= i
  IN IF closes # {}
     THEN [ok |-> TRUE, params |-> SubSeq(T, 2, j0 - 1), noParams |-> FALSE,
           rest |-> SkipSpaces(Drop(T, j0))]
     ELSE NoMatch

\* params.split(',').map(p => p.trim())
RECURSIVE SplitComma(_, _)
SplitComma(ts, piece) ==
  IF ts = <<>> THEN <<Trim(piece)>>
  ELSE IF Head(ts) = "," THEN <<Trim(piece)>> \o SplitComma(Tail(ts), <<>>)
  ELSE SplitComma(Tail(ts), Append(piece, Head(ts)))

\* Whether the parameter strings given to new Function parse as a parameter list
ParamsParse(pieces) ==
  \/ pieces = << <<>> >>
  \/ \A i \in 1..Len(pieces) : Len(pieces[i]) = 1 /\ pieces[i][1] \in Identifiers

ParamNames(pieces) ==
  IF pieces = << <<>> >> THEN <<>> ELSE [i \in 1..Len(pieces) |-> pieces[i][1]]

Threw == [threw |-> TRUE, v |-> Undefined]
Gave(v) == [threw |-> FALSE, v |-> v]

\* new Function(...params, body): a SyntaxError when either does not parse
NewFunction(pieces, body) ==
  IF ParamsParse(pieces) /\ BodyParses(body)
  THEN Gave(Fn("anonymous", <<>>, ParamNames(pieces), body))
  ELSE Threw

\* deserializeFunction(fnStr): every failure, the TypeError of
\* undefined.split included, is rethrown as 'Failed to deserialize function'
deserializeFunction(text) ==
  LET T == Normalize(text)
      hasArrow == \E i \in 1..Len(T) : T[i] = "=>"
      block == blockArrowMatch(T)
      simple == simpleArrowMatch(T)
      regular == regularFnMatch(T)
  IN IF hasArrow /\ block.ok THEN
       IF block.noParams THEN Threw
       ELSE NewFunction(SplitComma(block.params, <<>>), Trim(BlockBody(block.rest)))
     ELSE IF hasArrow /\ simple.ok THEN
       IF simple.noParams THEN Threw
       ELSE NewFunction(SplitComma(simple.params, <<>>),
                        <<"return", " ">> \o Trim(simple.rest) \o <<";">>)
     ELSE IF regular.ok THEN
       NewFunction(SplitComma(regular.params, <<>>), Trim(BlockBody(regular.rest)))
     ELSE Threw

---------------------------------------------------------------------------
(* Number and string conversions                                           *)

Digit(k) == ToString(k)

\* Number.isInteger(v)
IsInteger(v) == v.t = "number" /\ v.k = "fin" /\ v.n % 1000 = 0

\* The digits after the decimal point in v.toString(): trailing zeros are not
\* written
FractionDigits(v) ==
  LET f == (IF v.n < 0 THEN -v.n ELSE v.n) % 1000
  IN IF f = 0 THEN <<>>
     ELSE IF f % 100 = 0 THEN <<Digit(f \div 100)>>
     ELSE IF f % 10 = 0 THEN <<Digit(f \div 100), Digit((f \div 10) % 10)>>
     ELSE <<Digit(f \div 100), Digit((f \div 10) % 10), Digit(f % 10)>>

\* v.toString() of a number
NumberToString(v) ==
  IF v.k = "nan" THEN <<"NaN">>
  ELSE LET a == IF v.n < 0 THEN -v.n ELSE v.n
           whole == (IF v.n < 0 THEN <<"-">> ELSE <<>>) \o <<ToString(a \div 1000)>>
       IN IF FractionDigits(v) = <<>> THEN whole
          ELSE whole \o <<".">> \o FractionDigits(v)

\* text.split('.')[1] || ''
AfterFirstDot(text) ==
  IF IncludesDot(text)
  THEN LET i == CHOOSE k \in 1..Len(text) :
                  text[k] = "." /\ \A j \in 1..(k - 1) : text[j] # "."
           rest == Drop(text, i)
       IN IF IncludesDot(rest)
          THEN SubSeq(rest, 1, (CHOOSE k \in 1..Len(rest) :
                  rest[k] = "." /\ \A j \in 1..(k - 1) : rest[j] # ".") - 1)
          ELSE rest
  ELSE <<>>

\* String(v) inside a template literal or join()
ToText(v) ==
  CASE v.t = "string" -> v.s
    [] v.t = "number" -> NumberToString(v)
    [] v.t = "boolean" -> IF v.b THEN <<"true">> ELSE <<"false">>
    [] v.t = "undefined" -> <<"undefined">>
    [] v.t = "null" -> <<"null">>
    [] OTHER -> <<"[object Object]">>

\* values.join(', ')
RECURSIVE JoinValues(_)
JoinValues(items) ==
  IF items = <<>> THEN <<>>
  ELSE IF Len(items) = 1 THEN ToText(items[1])
  ELSE ToText(items[1]) \o <<", ">> \o JoinValues(Tail(items))

\* The number of characters of the strings of this model
StringLength(v) ==
  IF v.s = <<>> THEN 0
  ELSE IF v.s \in {<<"A">>, <<"x">>} THEN 1
  ELSE IF v.s = <<"ab">> THEN 2
  ELSE IF v.s \in {<<"CASH">>, <<"PASS">>, <<"FAIL">>} THEN 4
  ELSE 6

---------------------------------------------------------------------------
(* Type & Pattern Registry                                                 *)

VALID_TYPES == {<<"S">>, <<"N">>, <<"B">>, <<"L">>, <<"M">>, <<"EMAIL">>, <<"URL">>,
                <<"DATE">>, <<"PHONE">>, <<"REGEX">>}

\* PATTERNS[name].test(text) on the strings of this model
PATTERNS(name, text) ==
  CASE name = "EMAIL" -> text \in {<<"john@example.com">>}
    [] name = "URL" -> text \in {<<"https://example.com">>}
    [] name = "PHONE" -> text \in {<<"+1-555-123-4567">>}
    [] name = "DATE" -> text \in {<<"2024-05-15">>, <<"2024-01-01">>}
    [] OTHER -> FALSE

\* new RegExp(pattern).test(text) on the patterns and strings of this model
RegExpTest(pattern, text) ==
  /\ pattern = S("^[A-Z]+$")
  /\ text \in {<<"A">>, <<"CASH">>, <<"PASS">>, <<"FAIL">>, <<"CREDIT">>}

parseArrayType(type) ==
  IF Len(type) >= 2 /\ type[1] = "L<" /\ type[Len(type)] = ">"
  THEN [isArray |-> TRUE, elementType |-> SubSeq(type, 2, Len(type) - 1)]
  ELSE [isArray |-> FALSE, elementType |-> type]

isValidationRule(rule) == rule.t \in {"object", "array"}

\* A variant of the type check that accepts every value
AnyType(value, type, rule) == TRUE

validateType(value, type, rule) ==
  CASE type = <<"S">> -> value.t = "string"
    [] type = <<"N">> -> value.t = "number" /\ value.k # "nan"
    [] type = <<"B">> -> value.t = "boolean"
    [] type = <<"L">> -> value.t = "array"
    [] type = <<"M">> -> value.t = "object"
    [] type = <<"EMAIL">> -> value.t = "string" /\ PATTERNS("EMAIL", value.s)
    [] type = <<"URL">> -> value.t = "string" /\ PATTERNS("URL", value.s)
    [] type = <<"DATE">> -> value.t = "string" /\ PATTERNS("DATE", value.s)
    [] type = <<"PHONE">> -> value.t = "string" /\ PATTERNS("PHONE", value.s)
    [] type = <<"REGEX">> ->
         /\ value.t = "string"
         /\ rule.t = "object" /\ Truthy(Prop(rule, "pattern"))
         /\ RegExpTest(Prop(rule, "pattern"), value.s)
    [] OTHER -> FALSE

RECURSIVE getTypeDescription(_)
getTypeDescription(rule) ==
  IF rule.t = "string" THEN rule.s
  ELSE LET type == Prop(rule, "type")
           opt(name, label) ==
             IF Truthy(Prop(rule, name))
             THEN <<label>> \o ToText(Prop(rule, name)) \o <<")">> ELSE <<>>
           def(name, label) ==
             IF ~IsUndefined(Prop(rule, name))
             THEN <<label>> \o ToText(Prop(rule, name)) \o <<")">> ELSE <<>>
       IN IF ~Truthy(type) THEN <<"unknown">>
          ELSE CASE type = S("S") ->
                      <<"string">> \o opt("minLength", " (min length: ")
                        \o opt("maxLength", " (max length: ")
                 [] type = S("N") ->
                      <<"number">> \o def("min", " (min: ") \o def("max", " (max: ")
                        \o (IF Truthy(Prop(rule, "decimal")) THEN <<" (decimal)">> ELSE <<>>)
                 [] type = S("EMAIL") -> <<"email address">>
                 [] type = S("URL") -> <<"URL">>
                 [] type = S("DATE") -> <<"date (YYYY-MM-DD)">>
                 [] type = S("PHONE") -> <<"phone number">>
                 [] type = S("B") -> <<"boolean">>
                 [] type = S("L") ->
                      <<"array">> \o (IF Truthy(Prop(rule, "items"))
                                      THEN <<" of ">> \o getTypeDescription(Prop(rule, "items"))
                                      ELSE <<>>)
                 [] type = S("REGEX") ->
                      <<"string matching pattern: ">> \o ToText(Prop(rule, "pattern"))
                 [] OTHER -> ToText(type)

---------------------------------------------------------------------------
(* Data Validator: validateAgainstModel                                    *)
(*                                                                         *)
(* The run of one call is threaded through a record st: the errors pushed  *)
(* so far, the callbacks called so far (calls), and whether an exception   *)
(* has been thrown and not caught (threw); a thrown exception skips every  *)
(* later step.  ctx holds dataWithDefaults and the parentPath argument.    *)

NoErrors == [errors |-> <<>>, calls |-> <<>>, threw |-> FALSE]

\* errors.push({ field, message })
Push(st, path, message) ==
  [st EXCEPT !.errors = Append(@, [field |-> path, message |-> message])]

Throw(st) == [st EXCEPT !.threw = TRUE]

Logged(st, kind, path, index, field, depValue) ==
  [st EXCEPT !.calls = Append(@, [kind |-> kind, path |-> path, index |-> index,
                                   field |-> field, dep |-> depValue])]

\* f(...args); calling what is not a function is a TypeError
CallValue(f, args) == IF IsFunction(f) THEN Call(f, args) ELSE Thrown

\* Array.isArray(rule.dependsOn) ? rule.dependsOn : [rule.dependsOn]
Deps(rule) ==
  IF Prop(rule, "dependsOn").t = "array"
  THEN Prop(rule, "dependsOn").items ELSE <<Prop(rule, "dependsOn")>>

\* typeof rule === 'object' && rule.dependsOn
HasDeps(rule) == TypeOf(rule) = "object" /\ Truthy(Prop(rule, "dependsOn"))

\* depPath of the presence check: relative to the parentPath argument
PresenceDepPath(field, parentPath) ==
  IF IncludesDot(field) THEN field ELSE Join(parentPath, field)

\* A variant of depPath that resolves every name from the document root
DepPathFromRoot(field, path) == field

\* depPath of the dependency evaluation: relative to the parent of the field's path
DepPath(field, path) ==
  IF IncludesDot(field) THEN field ELSE Join(ParentOf(path), field)

\* dep.message || 'Field is required based on dependencies'
RequiredMessage(dep) ==
  IF Truthy(Prop(dep, "message"))
  THEN Prop(dep, "message") ELSE S("Field is required based on dependencies")

\* The loop over the dependencies of an undefined value; stop is its `return`
RECURSIVE PresenceLoop(_, _, _, _, _)
PresenceLoop(deps, i, path, st, ctx) ==
  IF i > Len(deps) THEN [st |-> st, stop |-> FALSE]
  ELSE IF TypeOf(deps[i]) # "object" \/ deps[i].t = "null"
            \/ Prop(deps[i], "field").t # "string"
  THEN [st |-> Throw(st), stop |-> TRUE]
  ELSE LET depValue == getNestedValue(ctx.data,
                          PresenceDepPath(Prop(deps[i], "field").s, ctx.parentPath))
           Entry(dep, r, st1) ==
             IF r.kind # "return" THEN [st |-> Throw(st1), stop |-> TRUE]
             ELSE IF Truthy(r.v) /\ Truthy(Prop(dep, "isRequired"))
             THEN [st |-> Push(st1, path, RequiredMessage(dep)), stop |-> TRUE]
             ELSE PresenceLoop(deps, i + 1, path, st1, ctx)
       IN Entry(deps[i], CallValue(Prop(deps[i], "condition"), <<depValue>>),
                Logged(st, "presence", path, i, Prop(deps[i], "field").s, depValue))

\* A variant of the undefined handling that reports every absent value
RequiredWhenAbsent(rule, path, st, ctx) == Push(st, path, S("Field is required"))

\* if (value === undefined) { ... return; }
PresenceCheck(rule, path, st, ctx) ==
  LET After(looped) ==
        IF looped.stop THEN looped.st
        ELSE IF TypeOf(rule) = "object" /\ Truthy(Prop(rule, "optional")) THEN looped.st
        ELSE Push(looped.st, path, S("Field is required"))
  IN After(IF HasDeps(rule)
           THEN PresenceLoop(Deps(rule), 1, path, st, ctx)
           ELSE [st |-> st, stop |-> FALSE])

\* rule.values && !rule.values.includes(value)
ValuesCheck(value, rule, path, st) ==
  IF Truthy(Prop(rule, "values")) /\ ~Includes(Prop(rule, "values").items, value)
  THEN Push(st, path,
            Str(<<"Value must be one of: ">> \o JoinValues(Prop(rule, "values").items)))
  ELSE st

\* The decimal-places check of a number whose rule has decimal: true
DecimalCheck(value, rule, path, st) ==
  LET hasDecimal == IncludesDot(NumberToString(value))
      decimalPlaces == Len(AfterFirstDot(NumberToString(value)))
  IN IF ~Truthy(Prop(rule, "decimal")) THEN st
     ELSE IF ~hasDecimal /\ ~IsInteger(value)
     THEN Push(st, path, S("Value must be a decimal number"))
     ELSE IF ~IsUndefined(Prop(rule, "decimals"))
               /\ ~StrictEq(Whole(decimalPlaces), Prop(rule, "decimals"))
     THEN Push(st, path, Str(<<"Value must have exactly ">>
                               \o ToText(Prop(rule, "decimals")) \o <<" decimal places">>))
     ELSE st

\* if (rule.type === 'N') { min, max, integer, decimal }
NumberConstraints(value, rule, path, st) ==
  IF Prop(rule, "type") # S("N") THEN st
  ELSE LET Min(min, s) ==
             IF ~IsUndefined(min) /\ JsLt(value, min)
             THEN Push(s, path, Str(<<"Value must be >= ">> \o ToText(min))) ELSE s
           Max(max, s) ==
             IF ~IsUndefined(max) /\ JsGt(value, max)
             THEN Push(s, path, Str(<<"Value must be <= ">> \o ToText(max))) ELSE s
           Integer(s) ==
             IF Truthy(Prop(rule, "integer")) /\ ~IsInteger(value)
             THEN Push(s, path, S("Value must be an integer")) ELSE s
       IN DecimalCheck(value, rule, path,
                       Integer(Max(Prop(rule, "max"), Min(Prop(rule, "min"), st))))

\* if (rule.type === 'S') { minLength, maxLength }
StringConstraints(value, rule, path, st) ==
  IF Prop(rule, "type") # S("S") THEN st
  ELSE LET MinLength(minLength, s) ==
             IF ~IsUndefined(minLength) /\ JsLt(Whole(StringLength(value)), minLength)
             THEN Push(s, path, Str(<<"String length must be >= ">> \o ToText(minLength)))
             ELSE s
           MaxLength(maxLength, s) ==
             IF ~IsUndefined(maxLength) /\ JsGt(Whole(StringLength(value)), maxLength)
             THEN Push(s, path, Str(<<"String length must be <= ">> \o ToText(maxLength)))
             ELSE s
       IN MaxLength(Prop(rule, "maxLength"), MinLength(Prop(rule, "minLength"), st))

\* The standalone rule.validate(value), inside try/catch
CustomValidate(value, rule, path, st) ==
  IF ~IsFunction(Prop(rule, "validate")) THEN st
  ELSE LET Outcome(r, st1) ==
             IF r.kind = "return" /\ Truthy(r.v) THEN st1
             ELSE IF Truthy(Prop(rule, "message"))
             THEN Push(st1, path, Prop(rule, "message"))
             ELSE IF r.kind = "return"
             THEN Push(st1, path, Str(<<"Custom validation failed for field ">> \o path))
             ELSE Push(st1, path, Str(<<"Custom validation error for field ">> \o path))
       IN Outcome(Call(Prop(rule, "validate"), <<value>>),
                  Logged(st, "standalone", path, 0, <<>>, Undefined))

\* deps.forEach(dep => { condition, validate, push }): no entry is skipped
RECURSIVE DependencyLoop(_, _, _, _, _, _)
DependencyLoop(deps, i, value, path, st, ctx) ==
  IF i > Len(deps) \/ st.threw THEN st
  ELSE IF TypeOf(deps[i]) # "object" \/ deps[i].t = "null"
            \/ Prop(deps[i], "field").t # "string"
  THEN Throw(st)
  ELSE LET Entry(dep, c, s1, v, s2) ==
             IF c.kind # "return" THEN Throw(s1)
             ELSE DependencyLoop(deps, i + 1, value, path,
                                 IF ~Truthy(c.v) THEN s1
                                 ELSE IF v.kind # "return" THEN Throw(s2)
                                 ELSE IF ~Truthy(v.v)
                                 THEN Push(s2, path, Prop(dep, "message"))
                                 ELSE s2,
                                 ctx)
           depValue == getNestedValue(ctx.data, DepPath(Prop(deps[i], "field").s, path))
           st1 == Logged(st, "condition", path, i, Prop(deps[i], "field").s, depValue)
       IN Entry(deps[i], CallValue(Prop(deps[i], "condition"), <<depValue>>), st1,
                CallValue(Prop(deps[i], "validate"), <<value, depValue, ctx.data>>),
                Logged(st1, "validate", path, i, Prop(deps[i], "field").s, depValue))

\* if (typeof rule === 'object' && rule.dependsOn) { deps.forEach(...) }
DependenciesValidation(value, rule, path, st, ctx) ==
  IF HasDeps(rule) THEN DependencyLoop(Deps(rule), 1, value, path, st, ctx) ELSE st

\* value[key] of a value whose typeof is 'object'
ValueAt(value, key) == IF value.t = "object" THEN GetKey(value, key) ELSE Undefined

RECURSIVE validateValue(_, _, _, _, _)
RECURSIVE ValidateItems(_, _, _, _, _, _)
RECURSIVE ValidateFields(_, _, _, _, _, _)

\* value.forEach((item, index) => validateValue(item, itemRule, `${path}[${index}]`))
ValidateItems(items, i, itemRule, path, st, ctx) ==
  IF i > Len(items) \/ st.threw THEN st
  ELSE ValidateItems(items, i + 1, itemRule, path,
                     validateValue(items[i], itemRule, ItemPath(path, i - 1), st, ctx), ctx)

\* Object.entries(rule.fields).forEach(([key, fieldRule]) => validateValue(value[key], ...))
ValidateFields(entries, i, value, path, st, ctx) ==
  IF i > Len(entries) \/ st.threw THEN st
  ELSE ValidateFields(entries, i + 1, value, path,
                      validateValue(ValueAt(value, entries[i].k), entries[i].v,
                                    Join(path, entries[i].k), st, ctx), ctx)

\* The checks of a present value that has passed its type check
AfterTypeCheck(value, rule, path, st, ctx) ==
  LET Items(s) ==
        IF Truthy(Prop(rule, "items")) /\ value.t = "array"
        THEN ValidateItems(value.items, 1, Prop(rule, "items"), path, s, ctx) ELSE s
      Fields(s) ==
        IF Truthy(Prop(rule, "fields")) /\ TypeOf(value) = "object" /\ ~s.threw
        THEN ValidateFields(Prop(rule, "fields").entries, 1, value, path, s, ctx)
        ELSE s
  IN DependenciesValidation(value, rule, path,
       Fields(Items(CustomValidate(value, rule, path,
                      StringConstraints(value, rule, path,
                        NumberConstraints(value, rule, path,
                          ValuesCheck(value, rule, path, st)))))),
       ctx)

validateValue(value, rule, path, st, ctx) ==
  IF st.threw THEN st
  ELSE IF IsUndefined(value) THEN PresenceCheck(rule, path, st, ctx)
  ELSE LET typeIndicator == IF rule.t = "string" THEN rule ELSE Prop(rule, "type")
       IN IF ~Truthy(typeIndicator) THEN st
          ELSE IF parseArrayType(typeIndicator.s).isArray THEN
            IF value.t # "array"
            THEN Push(st, path, Str(<<"Expected array of ">>
                                      \o parseArrayType(typeIndicator.s).elementType
                                      \o <<", got ", TypeOf(value)>>))
            ELSE ValidateItems(value.items, 1,
                               Str(parseArrayType(typeIndicator.s).elementType), path, st, ctx)
          ELSE IF ~validateType(value, typeIndicator.s, rule)
          THEN Push(st, path, Str(<<"Invalid type, expected ">> \o getTypeDescription(rule)
                                    \o <<", got ", TypeOf(value)>>))
          ELSE IF rule.t = "string" THEN st
          ELSE AfterTypeCheck(value, rule, path, st, ctx)

\* JSON.parse(JSON.stringify(v)): undefined and function properties are
\* dropped, undefined and function elements and NaN become null
RECURSIVE JsonClone(_)
RECURSIVE JsonCloneEntries(_)
JsonCloneEntries(entries) ==
  IF entries = <<>> THEN <<>>
  ELSE IF Head(entries).v.t \in {"undefined", "function"} THEN JsonCloneEntries(Tail(entries))
  ELSE <<[k |-> Head(entries).k, v |-> JsonClone(Head(entries).v)]>>
         \o JsonCloneEntries(Tail(entries))

JsonClone(v) ==
  CASE v.t = "object" -> Obj(JsonCloneEntries(v.entries))
    [] v.t = "array" ->
         Arr([i \in 1..Len(v.items) |->
                IF v.items[i].t \in {"undefined", "function"} THEN Null
                ELSE JsonClone(v.items[i])])
    [] v.t = "number" -> IF v.k = "nan" THEN Null ELSE v
    [] OTHER -> v

\* rule.default !== undefined ? (function ? rule.default() : clone) : undefined
getDefaultValue(rule) ==
  LET Result(r) == IF r.kind = "return" THEN Gave(r.v) ELSE Threw
      Default(default) ==
        IF IsUndefined(default) THEN Gave(Undefined)
        ELSE IF IsFunction(default) THEN Result(Call(default, <<>>))
        ELSE Gave(JsonClone(default))
  IN Default(Prop(rule, "default"))

\* A result that starts empty instead of as a copy of the data
SpreadNothing(v) == Obj(<<>>)

\* { ...data }
Spread(v) ==
  CASE v.t = "object" -> v
    [] v.t = "array" ->
         Obj([i \in 1..Len(v.items) |-> [k |-> <<IndexText(i - 1)>>, v |-> v.items[i]]])
    [] OTHER -> Obj(<<>>)

\* Object.entries(model).forEach(([key, rule]) => { if (...) result[key] = default })
RECURSIVE DefaultsLoop(_, _, _)
DefaultsLoop(entries, i, acc) ==
  IF i > Len(entries) \/ acc.threw THEN acc
  ELSE LET Assigned(key, default) ==
             IF default.threw THEN Threw ELSE Gave(SetKey(acc.v, key, default.v))
           Entry(key, rule) ==
             DefaultsLoop(entries, i + 1,
                          IF IsUndefined(GetKey(acc.v, key)) /\ isValidationRule(rule)
                               /\ ~Truthy(Prop(rule, "optional"))
                          THEN Assigned(key, getDefaultValue(rule))
                          ELSE acc)
       IN Entry(entries[i].k, entries[i].v)

applyDefaults(d, m) == DefaultsLoop(m.entries, 1, Gave(Spread(d)))

\* The keys of the data that the model does not declare, as errors
RECURSIVE UnexpectedFields(_, _, _, _)
UnexpectedFields(dataKeys, i, modelKeys, parentPath) ==
  IF i > Len(dataKeys) THEN <<>>
  ELSE (IF \E j \in 1..Len(modelKeys) : modelKeys[j] = dataKeys[i] THEN <<>>
        ELSE <<[field |-> Join(parentPath, dataKeys[i]),
                message |-> Str(<<"Unexpected field '">> \o dataKeys[i]
                                  \o <<"' found in data.">>)]>>)
       \o UnexpectedFields(dataKeys, i + 1, modelKeys, parentPath)

\* key.includes('.') || key.includes('[]') ? getNestedValue(data, key) : data[key]
TopValue(d, key) ==
  IF IncludesDot(key) \/ (\E i \in 1..(Len(key) - 1) : key[i] = "[" /\ key[i + 1] = "]")
  THEN getNestedValue(d, key) ELSE GetKey(d, key)

\* Object.entries(model).forEach(([key, rule]) => validateValue(...))
RECURSIVE FieldLoop(_, _, _, _)
FieldLoop(entries, i, st, ctx) ==
  IF i > Len(entries) \/ st.threw THEN st
  ELSE FieldLoop(entries, i + 1,
                 validateValue(TopValue(ctx.data, entries[i].k), entries[i].v,
                               Join(ctx.parentPath, entries[i].k), st, ctx), ctx)

Exception == [threw |-> TRUE, isValid |-> FALSE, errors |-> <<>>, data |-> Undefined,
              calls |-> <<>>]

\* { isValid: false, errors } or { isValid: true, data: dataWithDefaults }
Response(st, d) ==
  IF st.threw THEN [Exception EXCEPT !.calls = st.calls]
  ELSE IF Len(st.errors) > 0
  THEN [threw |-> FALSE, isValid |-> FALSE, errors |-> st.errors, data |-> Undefined,
        calls |-> st.calls]
  ELSE [threw |-> FALSE, isValid |-> TRUE, errors |-> <<>>, data |-> d, calls |-> st.calls]

\* validateAgainstModel after const dataWithDefaults = applyDefaults(data, model)
ValidateWithDefaults(m, allowUnknownFields, parentPath, dataWithDefaults) ==
  LET unexpected == IF allowUnknownFields THEN <<>>
                    ELSE UnexpectedFields(Keys(dataWithDefaults.v), 1, Keys(m), parentPath)
  IN IF dataWithDefaults.threw THEN Exception
     ELSE IF Len(unexpected) > 0
     THEN Response([NoErrors EXCEPT !.errors = unexpected], dataWithDefaults.v)
     ELSE Response(FieldLoop(m.entries, 1, NoErrors,
                             [data |-> dataWithDefaults.v, parentPath |-> parentPath]),
                   dataWithDefaults.v)

\* A variant of validateAgainstModel that returns the data as it was given
ReturnGiven(response, d) ==
  IF response.isValid THEN [response EXCEPT !.data = d] ELSE response

validateReturningGiven(d, m, allowUnknownFields, parentPath) ==
  ReturnGiven(ValidateWithDefaults(m, allowUnknownFields, parentPath, applyDefaults(d, m)), d)

validateAgainstModel(d, m, allowUnknownFields, parentPath) ==
  ValidateWithDefaults(m, allowUnknownFields, parentPath, applyDefaults(d, m))

---------------------------------------------------------------------------
(* The model structural validator                                          *)

\* Object.entries(o): of an array, its elements under their indices
ObjectEntries(o) ==
  IF o.t = "object" THEN o.entries
  ELSE IF o.t = "array"
  THEN [i \in 1..Len(o.items) |-> [k |-> <<IndexText(i - 1)>>, v |-> o.items[i]]]
  ELSE <<>>

IsValidType(type) == type.t = "string" /\ type.s \in VALID_TYPES

\* The checks of one dependsOn entry
DependencyErrors(dep, depPath) ==
  IF TypeOf(dep) # "object" \/ dep.t = "null"
  THEN <<<<"Invalid dependency definition at ">> \o depPath>>
  ELSE (IF ~Truthy(Prop(dep, "field"))
        THEN <<<<"Missing field in dependency at ">> \o depPath>> ELSE <<>>)
       \o (IF ~Truthy(Prop(dep, "condition")) \/ TypeOf(Prop(dep, "condition")) # "function"
           THEN <<<<"Missing or invalid condition function at ">> \o depPath>> ELSE <<>>)
       \o (IF ~Truthy(Prop(dep, "validate")) \/ TypeOf(Prop(dep, "validate")) # "function"
           THEN <<<<"Missing or invalid validate function at ">> \o depPath>> ELSE <<>>)

RECURSIVE DependenciesErrors(_, _, _)
DependenciesErrors(deps, i, path) ==
  IF i > Len(deps) THEN <<>>
  ELSE DependencyErrors(deps[i], path \o <<".", "dependsOn", "[", IndexText(i - 1), "]">>)
       \o DependenciesErrors(deps, i + 1, path)

\* The min, max and integer checks of a number rule
NumberRuleErrors(field, path) ==
  LET min == Prop(field, "min")
      max == Prop(field, "max")
      integer == Prop(field, "integer")
  IN IF Prop(field, "type") # S("N") THEN <<>>
     ELSE (IF ~IsUndefined(min) /\ TypeOf(min) # "number"
           THEN <<<<"Invalid min value at ">> \o path>> ELSE <<>>)
          \o (IF ~IsUndefined(max) /\ TypeOf(max) # "number"
              THEN <<<<"Invalid max value at ">> \o path>> ELSE <<>>)
          \o (IF ~IsUndefined(min) /\ ~IsUndefined(max) /\ JsGt(min, max)
              THEN <<<<"Invalid range at ">> \o path>> ELSE <<>>)
          \o (IF ~IsUndefined(integer) /\ TypeOf(integer) # "boolean"
              THEN <<<<"Invalid integer flag at ">> \o path>> ELSE <<>>)

RECURSIVE validateField(_, _)
RECURSIVE ValidateFieldEntries(_, _, _)

ValidateFieldEntries(entries, i, path) ==
  IF i > Len(entries) THEN <<>>
  ELSE validateField(entries[i].v, Join(path, entries[i].k))
       \o ValidateFieldEntries(entries, i + 1, path)

validateField(field, path) ==
  IF field.t = "string"
  THEN IF field.s \notin VALID_TYPES
       THEN <<<<"Invalid type \""  >> \o field.s \o <<"\" at ">> \o path>>
       ELSE <<>>
  ELSE IF TypeOf(field) # "object" \/ field.t = "null"
  THEN <<<<"Invalid field definition at ">> \o path>>
  ELSE
    LET type == Prop(field, "type")
        values == Prop(field, "values")
        dependsOn == Prop(field, "dependsOn")
        fields == Prop(field, "fields")
        items == Prop(field, "items")
        typeErrors == IF Truthy(type) /\ ~IsValidType(type)
                      THEN <<<<"Invalid type \"">> \o ToText(type) \o <<"\" at ">> \o path>>
                      ELSE <<>>
        valuesErrors == IF ~IsUndefined(values)
                           /\ (values.t # "array" \/ Len(values.items) = 0)
                        THEN <<<<"Invalid values at ">> \o path>>
                        ELSE <<>>
        depErrors == IF Truthy(dependsOn)
                     THEN DependenciesErrors(IF dependsOn.t = "array" THEN dependsOn.items
                                             ELSE <<dependsOn>>, 1, path)
                     ELSE <<>>
        before == typeErrors \o valuesErrors \o NumberRuleErrors(field, path) \o depErrors
    IN IF Truthy(fields) /\ TypeOf(fields) # "object"
       THEN Append(before, <<"Invalid fields definition at ">> \o path)
       ELSE before
            \o (IF Truthy(fields) THEN ValidateFieldEntries(ObjectEntries(fields), 1, path)
                ELSE <<>>)
            \o (IF Truthy(items) THEN validateField(items, path \o <<".", "items">>)
                ELSE <<>>)

\* { isValid: errors.length === 0, errors }
validateDataModel(m) ==
  LET errors == ValidateFieldEntries(ObjectEntries(m), 1, <<>>)
  IN [isValid |-> Len(errors) = 0, errors |-> errors]

---------------------------------------------------------------------------
(* Serialization of a model and its reconstruction                         *)

RECURSIVE serializeObject(_)
serializeObject(obj) ==
  CASE obj.t = "function" -> serializeFunction(obj)
    [] obj.t = "array" -> Arr([i \in 1..Len(obj.items) |-> serializeObject(obj.items[i])])
    [] obj.t = "object" ->
         Obj([i \in 1..Len(obj.entries) |->
                [k |-> obj.entries[i].k, v |-> serializeObject(obj.entries[i].v)]])
    [] OTHER -> obj

\* JSON.stringify(serializeObject(model)); the text is kept as the JSON
\* document it denotes, which is what JSON.parse gives back
serializeValidationModel(m) == JsonClone(serializeObject(m))

\* typeof v === 'object' && v !== null && 'field' in v
isDependencyObject(v) == v.t = "object" /\ HasKey(v, <<"field">>)

\* One more element of a list under reconstruction; an exception in either
\* part is the exception of the whole
Cons(first, rest) ==
  IF first.threw \/ rest.threw THEN Threw ELSE Gave(<<first.v>> \o rest.v)

RECURSIVE deserializeObject(_)
RECURSIVE DeserializeItems(_, _)
RECURSIVE DeserializeEntries(_, _)
RECURSIVE DeserializeDeps(_, _)

\* { field, message, condition, validate } of one stored dependency
DeserializeDependency(dep) ==
  LET Entry(condition, validate) ==
        IF condition.threw \/ validate.threw THEN Threw
        ELSE Gave(Obj(<<KV("field", Prop(dep, "field")), KV("message", Prop(dep, "message")),
                        KV("condition", condition.v), KV("validate", validate.v)>>))
      Callable(record) ==
        IF Truthy(record) THEN deserializeObject(record) ELSE Gave(Undefined)
  IN Entry(Callable(Prop(dep, "condition")), Callable(Prop(dep, "validate")))

DeserializeDeps(items, i) ==
  IF i > Len(items) THEN Gave(<<>>)
  ELSE IF ~isDependencyObject(items[i]) THEN Threw
  ELSE Cons(DeserializeDependency(items[i]), DeserializeDeps(items, i + 1))

DeserializeItems(items, i) ==
  IF i > Len(items) THEN Gave(<<>>)
  ELSE Cons(deserializeObject(items[i]), DeserializeItems(items, i + 1))

DeserializeEntries(entries, i) ==
  IF i > Len(entries) THEN Gave(<<>>)
  ELSE LET AsArray(deps) == IF deps.threw THEN Threw ELSE Gave(Arr(deps.v))
           AsEntry(key, r) == IF r.threw THEN Threw ELSE Gave([k |-> key, v |-> r.v])
           key == entries[i].k
           value == entries[i].v
       IN Cons(AsEntry(key,
                       IF key = <<"dependsOn">>
                       THEN IF value.t = "array"
                            THEN AsArray(DeserializeDeps(value.items, 1))
                            ELSE IF isDependencyObject(value)
                            THEN DeserializeDependency(value)
                            ELSE Threw
                       ELSE deserializeObject(value)),
               DeserializeEntries(entries, i + 1))

deserializeObject(obj) ==
  IF Truthy(obj) /\ Prop(obj, "__type") = S("function") /\ Truthy(Prop(obj, "code"))
  THEN LET FromText(text) ==
             IF text.t = "string" THEN deserializeFunction(text.s) ELSE Threw
       IN FromText(IF Truthy(Prop(obj, "original")) THEN Prop(obj, "original")
                   ELSE Prop(obj, "code"))
  ELSE IF obj.t = "array"
  THEN LET AsArray(items) == IF items.threw THEN Threw ELSE Gave(Arr(items.v))
       IN AsArray(DeserializeItems(obj.items, 1))
  ELSE IF obj.t = "object"
  THEN LET AsObject(entries) == IF entries.threw THEN Threw ELSE Gave(Obj(entries.v))
       IN AsObject(DeserializeEntries(obj.entries, 1))
  ELSE Gave(obj)

\* A variant of deserializeValidationModel without the structural validation
deserializeUnvalidated(doc) == deserializeObject(doc)

\* The rebuilt model, or an exception when a function record does not
\* deserialize or the rebuilt model is not structurally valid
deserializeValidationModel(doc) ==
  LET Validated(deserialized) ==
        IF deserialized.threw THEN Threw
        ELSE IF ~validateDataModel(deserialized.v).isValid THEN Threw
        ELSE deserialized
  IN Validated(deserializeObject(doc))

---------------------------------------------------------------------------
(* Models and data the validator is run on                                 *)

\* The most dependsOn entries of a generated rule, and the most elements of a
\* generated list
MaxDeps == 2
MaxItems == 2

Rule(entries) == Obj(entries)

\* { field, condition, validate, message } and, when required, isRequired: true
DepEntry(field, condition, validate, message, required) ==
  Obj(<<KV("field", Str(field)), KV("condition", condition), KV("validate", validate),
        KV("message", S(message))>>
      \o (IF required THEN <<KV("isRequired", True)>> ELSE <<>>))

Defined == BareArrow("d", <<"d!==undefined">>)
Always == Arrow(<<"d">>, <<"true">>)

\* min and max depend on each other
CircularModel ==
  Obj(<<KV("min", Rule(<<KV("type", S("N")),
            KV("dependsOn", DepEntry(<<"max">>, Arrow(<<"d">>, <<"d!==undefined">>),
                                     Arrow(<<"v", "d">>, <<"v<d">>),
                                     "Min must be less than max", FALSE))>>)),
        KV("max", Rule(<<KV("type", S("N")),
            KV("dependsOn", DepEntry(<<"min">>, Arrow(<<"d">>, <<"d!==undefined">>),
                                     Arrow(<<"v", "d">>, <<"v>d">>),
                                     "Max must be greater than min", FALSE))>>))>>)

\* payment.method depends on order.total
CrossObjectModel ==
  Obj(<<KV("order", Rule(<<KV("type", S("M")),
            KV("fields", Obj(<<KV("total", Rule(<<KV("type", S("N"))>>))>>))>>)),
        KV("payment", Rule(<<KV("type", S("M")),
            KV("fields", Obj(<<KV("method", Rule(<<KV("type", S("S")),
                KV("values", Arr(<<S("CREDIT"), S("DEBIT"), S("CASH")>>)),
                KV("dependsOn", DepEntry(<<"order", ".", "total">>,
                                         Arrow(<<"d">>, <<"d>1000">>),
                                         Arrow(<<"v">>, <<"v!=='CASH'">>),
                                         "Orders over 1000 cannot be paid in cash",
                                         FALSE))>>))>>))>>))>>)

CanDrinkBody ==
  <<"\n", "if", "(", "d<21&&v===true", ")", " ", "return", " ", "false", ";", "\n",
    "return", " ", "true", ";", "\n">>

\* user.profile.canDrink depends on its sibling age
NestedModel ==
  Obj(<<KV("user", Rule(<<KV("type", S("M")),
          KV("fields", Obj(<<KV("profile", Rule(<<KV("type", S("M")),
              KV("fields", Obj(<<KV("age", Rule(<<KV("type", S("N"))>>)),
                  KV("canDrink", Rule(<<KV("type", S("B")),
                      KV("dependsOn", DepEntry(<<"age">>,
                                               Arrow(<<"d">>, <<"d!==undefined">>),
                                               ArrowBlock(<<"v", "d">>, CanDrinkBody),
                                               "Cannot drink if under 21",
                                               FALSE))>>))>>))>>))>>))>>))>>)

\* A list of maps whose status depends on its sibling grade
StudentsModel ==
  Obj(<<KV("students", Rule(<<KV("type", S("L")),
          KV("items", Rule(<<KV("type", S("M")),
              KV("fields", Obj(<<KV("grade", Rule(<<KV("type", S("N"))>>)),
                  KV("status", Rule(<<KV("type", S("S")),
                      KV("values", Arr(<<S("PASS"), S("FAIL")>>)),
                      KV("dependsOn", DepEntry(<<"grade">>,
                                               Arrow(<<"d">>, <<"d!==undefined">>),
                                               Arrow(<<"v", "d">>, <<"v<d">>),
                                               "Status must match grade threshold",
                                               FALSE))>>))>>))>>))>>))>>)

\* basicDecimal, twoDecimalPlaces
DecimalModel ==
  Obj(<<KV("basicDecimal", Rule(<<KV("type", S("N")), KV("decimal", True),
                                   KV("optional", True)>>)),
        KV("twoDecimalPlaces", Rule(<<KV("type", S("N")), KV("decimal", True),
                                       KV("decimals", Whole(2))>>))>>)

\* Defaults: a plain value, a zero-argument function, an optional rule with a
\* default, and a standalone validate
DefaultsModel ==
  Obj(<<KV("count", Rule(<<KV("type", S("N")), KV("default", Whole(5)), KV("min", Num(0))>>)),
        KV("flag", Rule(<<KV("type", S("B")),
                           KV("default", Classic(<<>>, <<>>,
                                                 <<" ", "return", " ", "true", ";", " ">>))>>)),
        KV("note", Rule(<<KV("type", S("S")), KV("optional", True),
                           KV("default", S("x")), KV("maxLength", Whole(2))>>)),
        KV("score", Rule(<<KV("type", S("N")), KV("optional", True),
                            KV("validate", Classic(<<"f">>, <<"v">>,
                                                   <<" ", "return", " ", "v>0", ";", " ">>)),
                            KV("message", S("Score must be positive"))>>))>>)

\* A composite type tag
TagsModel == Obj(<<KV("tags", Str(<<"L<", "S", ">">>))>>)

\* A default given as a zero-argument arrow function
ArrowDefaultModel ==
  Obj(<<KV("flag", Rule(<<KV("type", S("B")), KV("default", Arrow(<<>>, <<"true">>))>>))>>)

\* A standalone validate written as a method of the rule
MethodModel ==
  Obj(<<KV("score", Rule(<<KV("type", S("N")),
                            KV("validate", Method("validate", <<"v">>,
                                                  <<" ", "return", " ", "v>0", ";", " ">>))>>))>>)

\* Date list, with a standalone validate that throws on every call
DatesModel ==
  Obj(<<KV("dates", Rule(<<KV("type", S("L")), KV("items", Rule(<<KV("type", S("DATE"))>>))>>)),
        KV("code", Rule(<<KV("type", S("REGEX")), KV("pattern", S("^[A-Z]+$")),
                           KV("optional", True),
                           KV("validate", Classic(<<>>, <<"v">>, <<" ", "throw", " ", "false", ";", " ">>))>>))>>)

\* A value below a limit that has a default, at the top level and inside a
\* map (as the defaults of preferences.theme and preferences.notifications)
LimitRules ==
  <<KV("limit", Rule(<<KV("type", S("N")), KV("default", Whole(100))>>)),
    KV("amount", Rule(<<KV("type", S("N")),
                        KV("dependsOn", DepEntry(<<"limit">>, Always,
                                                 Arrow(<<"v", "d">>, <<"v<d">>),
                                                 "m1", FALSE))>>))>>

PreferencesModel ==
  Obj(LimitRules
      \o <<KV("preferences", Rule(<<KV("type", S("M")), KV("fields", Obj(LimitRules))>>))>>)

\* Inside the map profile, license is required once its sibling age is given
LicenseModel ==
  Obj(<<KV("profile", Rule(<<KV("type", S("M")),
          KV("fields", Obj(<<KV("age", Rule(<<KV("type", S("N")), KV("optional", True)>>)),
              KV("license", Rule(<<KV("type", S("S")), KV("optional", True),
                  KV("dependsOn", DepEntry(<<"age">>,
                                           Arrow(<<"d">>, <<"d!==undefined">>),
                                           Arrow(<<"v">>, <<"v!=='CASH'">>),
                                           "License is required with an age",
                                           TRUE))>>))>>))>>))>>)

\* The entries a generated dependsOn list is drawn from; entry i of a list has
\* message "m<i>".  They depend on the sibling b.
DepKinds == {"less", "length", "required", "comment"}

KindEntry(kind, i) ==
  LET msg == IF i = 1 THEN "m1" ELSE IF i = 2 THEN "m2" ELSE IF i = 3 THEN "m3" ELSE "m4"
  IN CASE kind = "less" ->
            DepEntry(<<"b">>, Defined, Arrow(<<"v", "d">>, <<"v<d">>), msg, FALSE)
       [] kind = "length" ->
            DepEntry(<<"b">>, Arrow(<<"d">>, <<"d.length>0">>),
                     Arrow(<<"v", "d">>, <<"v<d">>), msg, FALSE)
       [] kind = "required" ->
            DepEntry(<<"b">>, Defined, Arrow(<<"v">>, <<"v>0">>), msg, TRUE)
       [] OTHER ->
            DepEntry(<<"b">>, Always,
                     ArrowBlock(<<"v", "d">>,
                                <<"\n", "//", " ", "v", "\n", "return", " ", "v<d", ";", "\n">>),
                     msg, FALSE)

KindLists == UNION {[1..n -> DepKinds] : n \in 0..MaxDeps}

\* { a: { type: 'N', optional?, dependsOn: [...] }, b: { type: 'N', optional: true } }
GeneratedModel(kinds, optional) ==
  Obj(<<KV("a", Rule(<<KV("type", S("N"))>>
                     \o (IF optional THEN <<KV("optional", True)>> ELSE <<>>)
                     \o (IF Len(kinds) = 0 THEN <<>>
                         ELSE <<KV("dependsOn",
                                   Arr([i \in 1..Len(kinds) |-> KindEntry(kinds[i], i)]))>>))),
        KV("b", Rule(<<KV("type", S("N")), KV("optional", True)>>))>>)

GeneratedModels == {GeneratedModel(kinds, o) : kinds \in KindLists, o \in BOOLEAN}

FixedModels == {CircularModel, CrossObjectModel, NestedModel, StudentsModel, DecimalModel,
                DefaultsModel, TagsModel, ArrowDefaultModel, MethodModel, DatesModel,
                PreferencesModel, LicenseModel}

Models == FixedModels \cup GeneratedModels

\* An object of the given keys; a key whose value is "absent" is left out
Absent == [t |-> "absent"]

RECURSIVE Record(_, _)
Record(keys, vals) ==
  IF keys = <<>> THEN <<>>
  ELSE (IF vals[1] = Absent THEN <<>> ELSE <<KV(keys[1], vals[1])>>)
       \o Record(Tail(keys), Tail(vals))

Lists(values) == UNION {[1..n -> values] : n \in 0..MaxItems}

Numbers == {Absent, Whole(100), Whole(50), S("CASH")}

DataFor(m) ==
  CASE m = CircularModel ->
         {Obj(Record(<<"min", "max">>, <<x, y>>)) :
            x \in {Absent, Num(0), Whole(100)}, y \in {Absent, Whole(50), Whole(100)}}
         \cup {Obj(<<KV("min", S("x")), KV("max", S("x"))>>)}
    [] m = CrossObjectModel ->
         {Obj(Record(<<"order", "payment">>,
                     <<Obj(Record(<<"total">>, <<x>>)), Obj(Record(<<"method">>, <<y>>))>>)) :
            x \in {Absent, Whole(1500), Whole(500)},
            y \in {Absent, S("CASH"), S("CREDIT"), S("x")}}
         \cup {Obj(<<KV("order", S("x")), KV("payment", Obj(<<KV("method", S("CASH"))>>))>>)}
    [] m = NestedModel ->
         {Obj(<<KV("user", Obj(<<KV("profile", Obj(Record(<<"age", "canDrink">>, <<x, y>>)))>>))>>) :
            x \in {Absent, Whole(18), Whole(25)}, y \in {Absent, True, False}}
         \cup {Obj(<<KV("user", Obj(<<KV("profile", Obj(<<KV("canDrink", True)>>))>>)),
                     KV("age", Whole(18))>>)}
    [] m = StudentsModel ->
         {Obj(<<KV("students", Arr(l))>>) :
            l \in Lists({Obj(Record(<<"grade", "status">>, <<x, y>>)) :
                           x \in {Whole(50), Whole(1500)}, y \in {Absent, S("PASS")}})}
    [] m = DecimalModel ->
         {Obj(Record(<<"basicDecimal", "twoDecimalPlaces">>, <<x, y>>)) :
            x \in {Absent, Whole(1), Num(1500)},
            y \in {Absent, Num(42250), Num(42125), Whole(42), Num(42500), S("x")}}
    [] m = DefaultsModel ->
         {Obj(Record(<<"count", "flag", "note", "score", "extra">>, <<c, f, n, s, e>>)) :
            c \in {Absent, Whole(1), Num(-1000)}, f \in {Absent, False},
            n \in {Absent, S("ab"), S("CREDIT")},
            s \in {Absent, Whole(1), Num(-1000)}, e \in {Absent, Whole(1)}}
    [] m = TagsModel ->
         {Obj(Record(<<"tags">>, <<t>>)) :
            t \in {Absent, Arr(<<>>), Arr(<<S("x"), Whole(1)>>), S("x")}}
    [] m = ArrowDefaultModel ->
         {Obj(Record(<<"flag">>, <<f>>)) : f \in {Absent, False, Whole(1)}}
    [] m = MethodModel ->
         {Obj(Record(<<"score">>, <<x>>)) : x \in {Absent, Whole(1), Num(-1000), S("x")}}
    [] m = DatesModel ->
         {Obj(Record(<<"dates", "code">>, <<Arr(l), c>>)) :
            l \in Lists({S("2024-05-15"), S("x")}), c \in {Absent, S("A"), S("x")}}
         \cup {Obj(<<KV("dates", Arr(<<S("2024-01-01"), S("x"), S("2024-05-15")>>))>>)}
    [] m = LicenseModel ->
         {Obj(<<KV("profile", Obj(Record(<<"age", "license">>, <<x, y>>)))>>) :
            x \in {Absent, Whole(18)}, y \in {Absent, S("x"), S("CASH")}}
    [] m = PreferencesModel ->
         {Obj(Record(<<"limit", "amount", "preferences">>,
                     <<x, Whole(50), Obj(Record(<<"limit", "amount">>, <<y, z>>))>>)) :
            x \in {Absent, Whole(1500)}, y \in {Absent, Whole(1500)},
            z \in {Whole(50), Whole(100)}}
    [] OTHER ->
         {Obj(Record(<<"a", "b", "extra">>, <<x, y, e>>)) :
            x \in Numbers, y \in {Absent, Whole(100)}, e \in {Absent, Whole(1)}}

\* Edits of a stored document: a dependency loses its condition or validate
\* record, a rule gets an unregistered type tag, every function record gets a
\* text that is no function, or an empty text
Edits == {"dropCondition", "dropValidate", "unknownType", "loopCode", "emptyCode"}

IsFunctionRecord(v) == v.t = "object" /\ Prop(v, "__type") = S("function")

RECURSIVE Edited(_, _)
RECURSIVE EditedEntries(_, _)

EditedEntries(entries, edit) ==
  IF entries = <<>> THEN <<>>
  ELSE LET e == Head(entries)
           rest == EditedEntries(Tail(entries), edit)
       IN IF \/ edit = "dropCondition" /\ e.k = <<"condition">> /\ IsFunctionRecord(e.v)
             \/ edit = "dropValidate" /\ e.k = <<"validate">> /\ IsFunctionRecord(e.v)
          THEN rest
          ELSE IF edit = "unknownType" /\ e.k = <<"type">> /\ e.v = S("N")
          THEN <<[k |-> e.k, v |-> S("X")]>> \o rest
          ELSE <<[k |-> e.k, v |-> Edited(e.v, edit)]>> \o rest

Edited(doc, edit) ==
  IF IsFunctionRecord(doc) /\ edit \in {"loopCode", "emptyCode"}
  THEN LET text == IF edit = "loopCode" THEN Str(EmptyLoop) ELSE Str(<<>>)
       IN Obj(<<KV("__type", S("function")), KV("code", text), KV("original", text)>>)
  ELSE IF doc.t = "array"
  THEN Arr([i \in 1..Len(doc.items) |-> Edited(doc.items[i], edit)])
  ELSE IF doc.t = "object"
  THEN Obj(EditedEntries(doc.entries, edit))
  ELSE doc

---------------------------------------------------------------------------
(* The state machine: one validation of data against model, a second       *)
(* validation of the data it returned, and the same validation against the *)
(* model after it went through serialization and deserialization.          *)

NoResult == [none |-> TRUE]

Init ==
  /\ pc = "start"
  /\ model \in Models
  /\ data \in DataFor(model)
  /\ allowUnknown \in BOOLEAN
  /\ result = NoResult
  /\ second = NoResult
  /\ serialized = NoResult
  /\ loaded = NoResult
  /\ loadedResult = NoResult
  /\ fnText = <<>>
  /\ fnResult = NoResult
  /\ collection = <<>>
  /\ answer = NoResult
  /\ instance = NoResult
  /\ databases = NoResult
  /\ tasks = NoResult

\* validateAgainstModel(data, model, allowUnknownFields)
Validate ==
  /\ pc = "start"
  /\ result' = validateAgainstModel(data, model, allowUnknown, <<>>)
  /\ pc' = "validated"
  /\ UNCHANGED <<processVars, collection, answer, model, data, allowUnknown, second, serialized,
                 loaded, loadedResult, fnText, fnResult>>

\* validateAgainstModel(r.data, model, allowUnknownFields) after a success r
Revalidate ==
  /\ pc = "validated"
  /\ ~result.threw /\ result.isValid
  /\ second' = validateAgainstModel(result.data, model, allowUnknown, <<>>)
  /\ pc' = "revalidated"
  /\ UNCHANGED <<processVars, collection, answer, model, data, allowUnknown, result, serialized,
                 loaded, loadedResult, fnText, fnResult>>

\* serializeValidationModel(model)
Serialize ==
  /\ pc \in {"validated", "revalidated"}
  /\ serialized' = serializeValidationModel(model)
  /\ pc' = "serialized"
  /\ UNCHANGED <<processVars, collection, answer, model, data, allowUnknown, result, second, loaded,
                 loadedResult, fnText, fnResult>>

\* The stored text is any string: here the serialized model after one edit
Tamper ==
  /\ pc = "serialized"
  /\ \E edit \in Edits :
       /\ Edited(serialized, edit) # serialized
       /\ serialized' = Edited(serialized, edit)
  /\ pc' = "tampered"
  /\ UNCHANGED <<processVars, collection, answer, model, data, allowUnknown, result, second, loaded,
                 loadedResult, fnText, fnResult>>

\* deserializeValidationModel(serialized)
Deserialize ==
  /\ pc \in {"serialized", "tampered"}
  /\ loaded' = deserializeValidationModel(serialized)
  /\ pc' = "deserialized"
  /\ UNCHANGED <<processVars, collection, answer, model, data, allowUnknown, result, second,
                 serialized, loadedResult, fnText, fnResult>>

\* validateAgainstModel(data, loaded, allowUnknownFields)
ValidateLoaded ==
  /\ pc = "deserialized"
  /\ ~loaded.threw
  /\ loadedResult' = validateAgainstModel(data, loaded.v, allowUnknown, <<>>)
  /\ pc' = "done"
  /\ UNCHANGED <<processVars, collection, answer, model, data, allowUnknown, result, second,
                 serialized, loaded, fnText, fnResult>>

Next == Validate \/ Revalidate \/ Serialize \/ Tamper \/ Deserialize \/ ValidateLoaded

Spec == Init /\ [][Next]_vars

---------------------------------------------------------------------------
(* The function deserializer on stored source texts                        *)

\* Source texts: what comes before the parameter list, the parameter list,
\* what separates it from the body, and the body
Prefixes == {<<>>, <<"function", " ">>, <<"function", " ", "f">>, <<"async", " ">>, <<"while">>}

Parenthesized == {<<"(", "v", ")">>, <<"(", ")">>, <<"(", "v", ",", " ", "d", ")">>}

Headers == Parenthesized \cup {<<"v">>, <<"(", "true", ")">>, <<>>}

Separators == {<<>>, <<" ">>, <<" ", "=>", " ">>}

Blocks == {<<"{", " ", "return", " ", "v>0", ";", " ", "}">>, <<"{", "}">>}

Bodies == Blocks \cup {<<"v>0">>, <<>>}

\* A parameter that is one bare identifier directly follows the start of the
\* text or a blank
FnTexts ==
  {p \o h \o a \o b : p \in {<<>>, <<"function", " ">>, <<"async", " ">>},
                      h \in Headers, a \in Separators, b \in Bodies}
  \cup {p \o h \o a \o b : p \in Prefixes, h \in Headers \ {<<"v">>},
                           a \in Separators, b \in Bodies}

\* { score: { type: 'N', validate: { __type: 'function', code, original } } }
StoredWith(text) ==
  Obj(<<KV("score", Obj(<<KV("type", S("N")),
                          KV("validate", Obj(<<KV("__type", S("function")),
                                               KV("code", Str(text)),
                                               KV("original", Str(text))>>))>>))>>)

InitFn ==
  /\ pc = "text"
  /\ fnText \in FnTexts
  /\ fnResult = NoResult
  /\ model = NoResult
  /\ data = NoResult
  /\ allowUnknown = FALSE
  /\ result = NoResult
  /\ second = NoResult
  /\ serialized = NoResult
  /\ loaded = NoResult
  /\ loadedResult = NoResult
  /\ collection = <<>>
  /\ answer = NoResult
  /\ instance = NoResult
  /\ databases = NoResult
  /\ tasks = NoResult

\* deserializeFunction(fnText)
DeserializeFn ==
  /\ pc = "text"
  /\ fnResult' = deserializeFunction(fnText)
  /\ pc' = "function"
  /\ UNCHANGED <<processVars, collection, answer, model, data, allowUnknown, result, second,
                 serialized, loaded, loadedResult, fnText>>

\* deserializeValidationModel of a stored model that holds the text
DeserializeStored ==
  /\ pc = "function"
  /\ loaded' = deserializeValidationModel(StoredWith(fnText))
  /\ pc' = "model"
  /\ UNCHANGED <<processVars, collection, answer, model, data, allowUnknown, result, second,
                 serialized, loadedResult, fnText, fnResult>>

\* A call of the rebuilt function
CallFn ==
  /\ pc = "model"
  /\ ~fnResult.threw
  /\ \E v \in {Whole(1), Num(-1000)} :
       result' = Call(fnResult.v, <<v, Whole(100)>>)
  /\ pc' = "called"
  /\ UNCHANGED <<processVars, collection, answer, model, data, allowUnknown, second, serialized,
                 loaded, loadedResult, fnText, fnResult>>

NextFn == DeserializeFn \/ DeserializeStored \/ CallFn

SpecFn == InitFn /\ [][NextFn]_vars

---------------------------------------------------------------------------
(* Properties of the dependency evaluation                                 *)

Error(path, message) == [field |-> path, message |-> message]

\* The errors of a response that are reported for the given path
ErrorsAt(response, path) == SelectSeq(response.errors, LAMBDA e : e.field = path)

\* The logged calls of the given kinds made for the given path
CallsAt(response, kinds, path) ==
  SelectSeq(response.calls, LAMBDA c : c.kind \in kinds /\ c.path = path)

\* The dependsOn entries of the rule of a top-level field
EntriesOf(m, key) == IF HasDeps(GetKey(m, key)) THEN Deps(GetKey(m, key)) ELSE <<>>

\* The validation went on to the fields: no top-level key was unexpected
ReachedFields == allowUnknown \/ \A i \in 1..Len(Keys(data)) : HasKey(model, Keys(data)[i])

\* The path the dependent value is to be read from: a name with a '.' is
\* absolute, any other name is a sibling of the field at path
ExpectedDepPath(field, path) ==
  IF \E i \in 1..Len(field) : field[i] = "." THEN field
  ELSE IF ParentOf(path) = <<>> THEN field
  ELSE ParentOf(path) \o <<".">> \o field

\* condition(dependentValue) is truthy and validate(value, dependentValue, data) is falsy
Fails(condition, validate) ==
  /\ condition.kind = "return" /\ Truthy(condition.v)
  /\ validate.kind = "return" /\ ~Truthy(validate.v)

EntryFails(dep, value, depValue, dwd) ==
  Fails(CallValue(Prop(dep, "condition"), <<depValue>>),
        CallValue(Prop(dep, "validate"), <<value, depValue, dwd>>))

\* One error per failing entry, in entry order
RECURSIVE ExpectedDependencyErrors(_, _, _, _, _)
ExpectedDependencyErrors(deps, i, path, value, dwd) ==
  IF i > Len(deps) THEN <<>>
  ELSE (IF EntryFails(deps[i], value,
                      getNestedValue(dwd, ExpectedDepPath(Prop(deps[i], "field").s, path)), dwd)
        THEN <<Error(path, Prop(deps[i], "message"))>> ELSE <<>>)
       \o ExpectedDependencyErrors(deps, i + 1, path, value, dwd)

\* The entries that were evaluated for a path, by their positions in dependsOn
EvaluatedEntries(response, path) ==
  [i \in 1..Len(CallsAt(response, {"condition"}, path)) |->
     CallsAt(response, {"condition"}, path)[i].index]

AllEntriesInOrder(response, deps, path, dwd) ==
  /\ EvaluatedEntries(response, path) = [i \in 1..Len(deps) |-> i]
  /\ ErrorsAt(response, path)
       = ExpectedDependencyErrors(deps, 1, path, getNestedValue(dwd, path), dwd)

\* C1: a present field a that passes its type check has every one of its N
\* dependsOn entries evaluated, in declared order, and gets exactly one error
\* per entry whose condition is truthy and whose validate is falsy, in entry
\* order; {min: 100, max: 50} gets 'Min must be less than max' and then 'Max
\* must be greater than min'.
C1_EveryEntryEvaluatedInOrder ==
  /\ (result # NoResult /\ model \in GeneratedModels /\ ReachedFields
        /\ validateType(GetKey(data, <<"a">>), <<"N">>, GetKey(model, <<"a">>)))
       => AllEntriesInOrder(result, EntriesOf(model, <<"a">>), <<"a">>,
                            applyDefaults(data, model).v)
  /\ (result # NoResult /\ model = CircularModel
        /\ data = Obj(<<KV("min", Whole(100)), KV("max", Whole(50))>>))
       => /\ ~result.threw
          /\ result.errors = <<Error(<<"min">>, S("Min must be less than max")),
                               Error(<<"max">>, S("Max must be greater than min"))>>

\* Every dependency evaluation read its dependent value at the expected path
ReadAtExpectedPath(response, dwd) ==
  \A i \in 1..Len(response.calls) :
    response.calls[i].kind \in {"condition", "validate"}
      => response.calls[i].dep
           = getNestedValue(dwd, ExpectedDepPath(response.calls[i].field,
                                                 response.calls[i].path))

CrossObjectData(total, method) ==
  Obj(<<KV("order", Obj(<<KV("total", total)>>)), KV("payment", Obj(<<KV("method", method)>>))>>)

RejectedCashPayment ==
  <<Error(<<"payment", ".", "method">>, S("Orders over 1000 cannot be paid in cash"))>>

\* C2: the dependency evaluation reads the dependent value from the data with
\* defaults at dep.field when it has a '.', and at the parent of the field's
\* path joined with dep.field otherwise.  An order of 1500 paid in CASH fails
\* with that entry's message only and paid by CREDIT succeeds;
\* user.profile.canDrink with dep.field 'age' reads user.profile.age.
C2_DependentValueResolution ==
  result # NoResult =>
    /\ ReadAtExpectedPath(result, applyDefaults(data, model).v)
    /\ (model = CrossObjectModel /\ data = CrossObjectData(Whole(1500), S("CASH")))
         => ~result.threw /\ ~result.isValid /\ result.errors = RejectedCashPayment
    /\ (model = CrossObjectModel /\ data = CrossObjectData(Whole(1500), S("CREDIT")))
         => ~result.threw /\ result.isValid
    /\ (model = NestedModel /\ ReachedFields
          /\ GetKey(getNestedValue(data, <<"user", ".", "profile">>), <<"canDrink">>) = True)
         => ErrorsAt(result, <<"user", ".", "profile", ".", "canDrink">>)
              = IF getNestedValue(data, <<"user", ".", "profile", ".", "age">>) = Whole(18)
                THEN <<Error(<<"user", ".", "profile", ".", "canDrink">>,
                             S("Cannot drink if under 21"))>>
                ELSE <<>>

\* C2 witness: the order of 1500 paid in CASH was rejected
C2_CashOrderRejected ==
  /\ pc = "validated" /\ model = CrossObjectModel
  /\ data = CrossObjectData(Whole(1500), S("CASH"))
  /\ result.errors = RejectedCashPayment

---------------------------------------------------------------------------
(* Properties of the serializer and of the validation as a whole           *)

\* Whether a value holds a function
RECURSIVE ContainsFunction(_)
ContainsFunction(v) ==
  CASE v.t = "function" -> TRUE
    [] v.t = "object" -> \E i \in 1..Len(v.entries) : ContainsFunction(v.entries[i].v)
    [] v.t = "array" -> \E i \in 1..Len(v.items) : ContainsFunction(v.items[i])
    [] OTHER -> FALSE

\* Whether a model has a dependsOn with a function in it
RECURSIVE HasDependencyFunction(_)
HasDependencyFunction(v) ==
  CASE v.t = "object" ->
         \E i \in 1..Len(v.entries) :
           \/ v.entries[i].k = <<"dependsOn">> /\ ContainsFunction(v.entries[i].v)
           \/ HasDependencyFunction(v.entries[i].v)
    [] v.t = "array" -> \E i \in 1..Len(v.items) : HasDependencyFunction(v.items[i])
    [] OTHER -> FALSE

\* The stored document is the serialized model, with no edit
Untouched == serialized = serializeValidationModel(model)

SameOutcome(r1, r2) ==
  r1.threw = r2.threw /\ r1.isValid = r2.isValid /\ r1.errors = r2.errors

\* C3: for a structurally valid model with at least one dependency function,
\* the model rebuilt from its serialization exists and validates every data
\* value with the same isValid and the same ordered (field, message) errors.
C3_RoundTripValidatesAlike ==
  (pc \in {"deserialized", "done"} /\ Untouched /\ HasDependencyFunction(model)
     /\ validateDataModel(model).isValid)
    => /\ ~loaded.threw
       /\ pc = "done" => SameOutcome(loadedResult, result)

\* Every error of the first response is an error of the second
Covers(full, response) ==
  /\ ~response.threw
  /\ \A i \in 1..Len(full.errors) :
       \E j \in 1..Len(response.errors) : response.errors[j] = full.errors[i]

\* The errors of the fields when unknown keys of the data are let through
FieldErrors(full, response) == ~full.threw => Covers(full, response)

\* C4: one call with the default allowUnknownFields = false returns an error
\* for every model field whose value violates its rule, also when the data
\* has top-level keys the model does not declare.
C4_EveryViolationReported ==
  (result # NoResult /\ ~allowUnknown)
    => FieldErrors(validateAgainstModel(data, model, TRUE, <<>>), result)

\* C5: a condition or validate callback of a dependsOn entry that throws does
\* not end validateAgainstModel: the call still returns its response.
C5_CallbackExceptionsCaught ==
  (result # NoResult /\ HasDependencyFunction(model)) => ~result.threw

\* The stored document after an edit that leaves a dependsOn entry without its
\* condition or validate record, or a rule with an unregistered type tag
StructurallyBroken ==
  /\ ~Untouched
  /\ \/ serialized = Edited(serializeValidationModel(model), "unknownType")
     \/ /\ HasDependencyFunction(model)
        /\ \E edit \in {"dropCondition", "dropValidate"} :
             serialized = Edited(serializeValidationModel(model), edit)

\* C6: deserializeValidationModel returns no model that validateDataModel
\* finds invalid; it throws on a document whose dependsOn entry lost its
\* condition or validate record or whose rule has an unregistered type tag.
C6_OnlyValidModelsAreReturned ==
  pc \in {"deserialized", "done"}
    => /\ ~loaded.threw => validateDataModel(loaded.v).isValid
       /\ StructurallyBroken => loaded.threw

\* C6 witness: a document whose tree is rebuilt but is structurally invalid
C6_RebuiltTreeRejected ==
  /\ pc = "deserialized" /\ StructurallyBroken
  /\ ~deserializeObject(serialized).threw
  /\ loaded.threw

---------------------------------------------------------------------------
(* Properties of the function deserializer                                 *)

\* A parameter list: names separated by commas, or nothing
IsParameterList(ts) ==
  \/ Trim(ts) = <<>>
  \/ \A i \in 1..Len(SplitComma(ts, <<>>)) :
       /\ Len(SplitComma(ts, <<>>)[i]) = 1
       /\ SplitComma(ts, <<>>)[i][1] \in Identifiers

\* (params), or one bare identifier
IsArrowHeader(ts) ==
  \/ Len(ts) = 1 /\ ts[1] \in Identifiers
  \/ Len(ts) >= 2 /\ ts[1] = "(" /\ ts[Len(ts)] = ")"
       /\ IsParameterList(SubSeq(ts, 2, Len(ts) - 1))

\* { statements }
IsStatementBlock(ts) == IsBlock(ts) /\ BodyParses(BlockBody(ts))

\* One expression
IsExpression(ts) == Len(ts) = 1 /\ ts[1] \in Expressions

\* The text with white space around it, the function keyword and the function
\* name taken off
Stripped(text) == Trim(StripFunctionKeyword(Trim(text)))

\* Arrow form: (params) => expr or (params) => { statements }
IsArrowFormText(T) ==
  \E i \in 1..Len(T) :
    /\ T[i] = "=>"
    /\ IsArrowHeader(Trim(SubSeq(T, 1, i - 1)))
    /\ \/ IsStatementBlock(Trim(SubSeq(T, i + 1, Len(T))))
       \/ IsExpression(Trim(SubSeq(T, i + 1, Len(T))))

\* Classic form: (params) { statements }
IsClassicFormText(T) ==
  \E i \in 2..Len(T) :
    /\ T[1] = "(" /\ T[i] = ")"
    /\ IsParameterList(SubSeq(T, 2, i - 1))
    /\ IsStatementBlock(Trim(SubSeq(T, i + 1, Len(T))))

IsAllowedForm(text) == IsArrowFormText(Stripped(text)) \/ IsClassicFormText(Stripped(text))

\* C7: deserializeFunction returns a function for exactly the texts of the
\* arrow form and of the classic form and throws for every other text, and
\* deserializeValidationModel throws for a stored model whose function record
\* holds a text of neither form.
C7_ExactlyTheTwoForms ==
  /\ fnResult # NoResult => (~fnResult.threw <=> IsAllowedForm(fnText))
  /\ (pc \in {"model", "called"} /\ ~IsAllowedForm(fnText)) => loaded.threw

---------------------------------------------------------------------------
(* Properties of defaults, of numbers and of the presence check            *)

\* C8: after a success r, validateAgainstModel(r.data, model) succeeds and
\* returns data equal to r.data: applying the defaults to r.data changes
\* nothing.
C8_SuccessIsIdempotent ==
  pc = "revalidated"
    => /\ ~second.threw /\ second.isValid
       /\ second.data = result.data
       /\ applyDefaults(result.data, model) = Gave(result.data)

\* C8 witness: a default was applied by the first validation and is there
\* after the second
C8_DefaultKeptBySecondRun ==
  /\ pc = "revalidated" /\ model = DefaultsModel
  /\ ~HasKey(data, <<"count">>)
  /\ GetKey(second.data, <<"count">>) = Whole(5)

TwoDecimalErrors == ErrorsAt(result, <<"twoDecimalPlaces">>)

\* C9: under { type: 'N', decimal: true, decimals: 2 } the value 42.25 is
\* accepted, 42.125 is rejected with a message that has 'exactly 2 decimal
\* places' in it, and 42 is accepted.
C9_TwoDecimalPlaces ==
  (result # NoResult /\ model = DecimalModel)
    => /\ ~result.threw
       /\ GetKey(data, <<"twoDecimalPlaces">>) = Num(42250) => TwoDecimalErrors = <<>>
       /\ GetKey(data, <<"twoDecimalPlaces">>) = Num(42125)
            => \E i \in 1..Len(TwoDecimalErrors) :
                 TwoDecimalErrors[i].message
                   = Str(<<"Value must have exactly ", "2", " decimal places">>)
       /\ GetKey(data, <<"twoDecimalPlaces">>) = Whole(42) => TwoDecimalErrors = <<>>

\* condition(dependentValue) is truthy
Holds(condition) == condition.kind = "return" /\ Truthy(condition.v)

ConditionHolds(dep, depValue) == Holds(CallValue(Prop(dep, "condition"), <<depValue>>))

\* The entries that are flagged as making the field required and whose
\* condition holds
Requiring(deps, dwd) ==
  {i \in 1..Len(deps) :
     /\ Truthy(Prop(deps[i], "isRequired"))
     /\ ConditionHolds(deps[i], getNestedValue(dwd, Prop(deps[i], "field").s))}

PresenceOutcome(response, rule, path, requiring, deps) ==
  /\ ~response.threw
  /\ CallsAt(response, {"condition", "validate", "standalone"}, path) = <<>>
  /\ IF requiring # {}
     THEN \E i \in requiring :
            ErrorsAt(response, path) = <<Error(path, Prop(deps[i], "message"))>>
     ELSE IF Truthy(Prop(rule, "optional")) THEN ErrorsAt(response, path) = <<>>
     ELSE ErrorsAt(response, path) = <<Error(path, S("Field is required"))>>

\* C10: for a top-level field a that is undefined: when an entry flagged as
\* making it required has a truthy condition, exactly one error with that
\* entry's message is added; otherwise nothing is added when the rule is
\* optional, and exactly one 'Field is required' when it is not; in each case
\* no further check runs for the field.
C10_PresenceCheck ==
  (result # NoResult /\ model \in GeneratedModels /\ ReachedFields
     /\ ~HasKey(data, <<"a">>))
    => PresenceOutcome(result, GetKey(model, <<"a">>), <<"a">>,
                       Requiring(EntriesOf(model, <<"a">>), applyDefaults(data, model).v),
                       EntriesOf(model, <<"a">>))

\* ---------------------------------------------------------------------------
\* Default application (applyDefaults)

\* The keys of the model and of the data
AllKeys(d, m) == {Keys(m)[i] : i \in 1..Len(Keys(m))} \cup {Keys(d)[i] : i \in 1..Len(Keys(d))}

\* A rule written as an object that is not optional
IsRequiredObjectRule(rule) == rule.t = "object" /\ ~Truthy(Prop(rule, "optional"))

\* What a declared default yields: the return value of a function, the value
\* itself otherwise, undefined when there is none
DefaultOf(rule) ==
  IF IsFunction(Prop(rule, "default")) THEN Call(Prop(rule, "default"), <<>>).v
  ELSE Prop(rule, "default")

\* The value a top-level key has after default application
ExpectedAfterDefaults(d, m, key) ==
  IF ~IsUndefined(GetKey(d, key)) THEN GetKey(d, key)
  ELSE IF HasKey(m, key) /\ IsRequiredObjectRule(GetKey(m, key)) THEN DefaultOf(GetKey(m, key))
  ELSE Undefined

---------------------------------------------------------------------------
(* MongoStorage: the collection of model versions                          *)

\* The most documents the collection holds
MaxRows == 3

\* A document { name, version, model }
Row(name, version, serializedModel) ==
  [name |-> name, version |-> version, model |-> serializedModel]

\* await or throw: what an asynchronous call settles with, and the collection
\* it leaves
Resolved(v, rows) == [threw |-> FALSE, message |-> <<>>, v |-> v, rows |-> rows]
Rejected(message, rows) == [threw |-> TRUE, message |-> message, v |-> Undefined, rows |-> rows]

\* A variant of find that takes the documents of every name
FindAll(rows, name) == rows

\* find({ name })
FindByName(rows, name) == SelectSeq(rows, LAMBDA r : r.name = name)

\* findOne({ name, version }): the first such document, or null
FindOne(rows, name, version) ==
  LET found == SelectSeq(rows, LAMBDA r : r.name = name /\ r.version = version)
  IN IF found = <<>> THEN Null ELSE found[1]

\* A variant of the sort that leaves the documents in the order they were stored
Unsorted(rows) == rows

\* sort({ version: -1 })
RECURSIVE SortByVersionDescending(_)
SortByVersionDescending(rows) ==
  IF rows = <<>> THEN <<>>
  ELSE LET top == CHOOSE i \in 1..Len(rows) :
                    \A j \in 1..Len(rows) :
                      \/ rows[j].version < rows[i].version
                      \/ rows[j].version = rows[i].version /\ i <= j
       IN <<rows[top]>>
            \o SortByVersionDescending(SubSeq(rows, 1, top - 1)
                                         \o SubSeq(rows, top + 1, Len(rows)))

\* doc && doc.model && Object.keys(doc.model).length > 0
HasModel(doc) == doc # Null /\ doc.model # Str(<<>>)

\* { version, model, createdAt } of a document
ModelVersion(doc) == [version |-> doc.version, model |-> doc.model]

\* A variant of storeModelVersion that inserts without looking for the version
insertModelVersion(rows, modelName, serializedModel, version) ==
  Resolved(Undefined, Append(rows, Row(modelName, version, serializedModel)))

\* A variant of storeModelVersion that replaces the document of the version
replaceModelVersion(rows, modelName, serializedModel, version) ==
  Resolved(Undefined,
           Append(SelectSeq(rows, LAMBDA r : ~(r.name = modelName /\ r.version = version)),
                  Row(modelName, version, serializedModel)))

\* MongoStorage.storeModelVersion(modelName, serializedModel, version)
storeModelVersion(rows, modelName, serializedModel, version) ==
  IF FindOne(rows, modelName, version) # Null
  THEN Rejected(<<"Version ", ToString(version), " already exists for model ", modelName>>,
                rows)
  ELSE Resolved(Undefined, Append(rows, Row(modelName, version, serializedModel)))

\* MongoStorage.getModelVersion(modelName, version)
getModelVersion(rows, modelName, version) ==
  LET Found(doc) == IF ~HasModel(doc) THEN Null ELSE ModelVersion(doc)
  IN Found(FindOne(rows, modelName, version))

\* A variant of getLatestModelVersion that takes the first document stored
getFirstModelVersion(rows, modelName) ==
  IF FindByName(rows, modelName) # <<>> /\ HasModel(FindByName(rows, modelName)[1])
  THEN ModelVersion(FindByName(rows, modelName)[1]) ELSE Null

\* MongoStorage.getLatestModelVersion(modelName)
getLatestModelVersion(rows, modelName) ==
  LET First(sorted) ==
        IF sorted # <<>> /\ HasModel(sorted[1]) THEN ModelVersion(sorted[1]) ELSE Null
  IN First(SortByVersionDescending(FindByName(rows, modelName)))

\* MongoStorage.listModelVersions(modelName)
listModelVersions(rows, modelName) ==
  LET Versions(sorted) == [i \in 1..Len(sorted) |-> sorted[i].version]
  IN Versions(SortByVersionDescending(FindByName(rows, modelName)))

\* MongoStorage.insertModel(modelName, model)
insertModel(rows, modelName, m) ==
  storeModelVersion(rows, modelName, serializeValidationModel(m), 1)

\* MongoStorage.updateModel(modelName, model)
updateModel(rows, modelName, m) ==
  LET Store(latestVersion) ==
        storeModelVersion(rows, modelName, serializeValidationModel(m),
                          IF latestVersion # Null THEN latestVersion.version + 1 ELSE 1)
  IN Store(getLatestModelVersion(rows, modelName))

\* MongoStorage.deleteModel(modelName)
deleteModel(rows, modelName) == SelectSeq(rows, LAMBDA r : r.name # modelName)

---------------------------------------------------------------------------
(* The PV class over a storage                                             *)

\* errors.join(', ')
RECURSIVE JoinErrors(_)
JoinErrors(errors) ==
  IF errors = <<>> THEN <<>>
  ELSE IF Len(errors) = 1 THEN errors[1]
  ELSE errors[1] \o <<", ">> \o JoinErrors(Tail(errors))

\* The message of the exception deserializeValidationModel ends with; the
\* reason a function record or a dependency is not rebuilt is left open ("...")
DeserializeMessage(doc) ==
  IF deserializeObject(doc).threw THEN <<"Failed to deserialize function: ", "...">>
  ELSE <<"Invalid model after deserialization: ">>
         \o JoinErrors(validateDataModel(deserializeObject(doc).v).errors)

\* A variant of the error response: the exception is passed on to the caller
Uncaught(message) == Exception

\* { isValid: false, errors: [{ field: 'model', message }] }
ModelError(message) ==
  [threw |-> FALSE, isValid |-> FALSE,
   errors |-> <<[field |-> <<"model">>, message |-> Str(message)]>>, data |-> Undefined,
   calls |-> <<>>]

\* validateAgainstModel inside try { } catch: an exception becomes a response
\* (with the message of the exception, left open as "...")
Caught(response) ==
  IF response.threw THEN ModelError(<<"Failed to load model: ", "...">>)
  ELSE response

\* A variant of validateStatic that validates the data whatever the model
validateStaticUnchecked(d, m) == validateAgainstModel(d, m, FALSE, <<>>)

\* PV.validateStatic(data, model)
validateStatic(d, m) ==
  LET modelValidation == validateDataModel(m)
  IN IF ~modelValidation.isValid
     THEN [threw |-> FALSE, isValid |-> FALSE,
           errors |-> [i \in 1..Len(modelValidation.errors) |->
                         [field |-> <<"model">>, message |-> Str(modelValidation.errors[i])]],
           data |-> Undefined, calls |-> <<>>]
     ELSE validateAgainstModel(d, m, FALSE, <<>>)

\* const serializedModel of PV.validateDynamic: the stored text, or the
\* message of the exception
SelectModel(rows, modelName, version) ==
  LET Of(found, message) ==
        IF found = Null THEN Rejected(message, rows) ELSE Resolved(found.model, rows)
  IN IF version # Undefined
     THEN Of(getModelVersion(rows, modelName, version.n \div 1000),
             <<"Model ", modelName, " version ">> \o NumberToString(version)
               \o <<" not found">>)
     ELSE Of(getLatestModelVersion(rows, modelName), <<"Model ", modelName, " not found">>)

\* PV.validateDynamic(data, modelName, version)
validateDynamic(rows, d, modelName, version) ==
  LET Validated(loadedModel, doc) ==
        IF loadedModel.threw
        THEN ModelError(<<"Failed to load model: ">> \o DeserializeMessage(doc))
        ELSE Caught(validateAgainstModel(d, loadedModel.v, FALSE, <<>>))
      Load(selected) ==
        IF selected.threw THEN ModelError(<<"Failed to load model: ">> \o selected.message)
        ELSE Validated(deserializeValidationModel(selected.v), selected.v)
  IN Load(SelectModel(rows, modelName, version))

\* { isValid: true, errors: null } and { isValid: false, errors: [message] }
Stored == [isValid |-> TRUE, errors |-> Null]
NotStored(message) == [isValid |-> FALSE, errors |-> <<<<"Failed to store model: ">> \o message>>]

\* A variant of storeModel without the structural validation and the
\* serialize-then-deserialize test
storeModelUngated(rows, modelName, m, version) ==
  LET Outcome(stored) ==
        IF stored.threw THEN [response |-> NotStored(stored.message), rows |-> stored.rows]
        ELSE [response |-> Stored, rows |-> stored.rows]
  IN Outcome(storeModelVersion(rows, modelName, serializeValidationModel(m),
                               IF version # Undefined THEN version.n \div 1000
                               ELSE IF getLatestModelVersion(rows, modelName) # Null
                               THEN getLatestModelVersion(rows, modelName).version + 1
                               ELSE 1))

\* PV.storeModel(modelName, model, version)
storeModel(rows, modelName, m, version) ==
  LET Outcome(stored) ==
        IF stored.threw THEN [response |-> NotStored(stored.message), rows |-> stored.rows]
        ELSE [response |-> Stored, rows |-> stored.rows]
      NextVersion(latestVersion) == IF latestVersion # Null THEN latestVersion.version + 1 ELSE 1
      Store(serializedModel) ==
        IF deserializeValidationModel(serializedModel).threw
        THEN Outcome(Rejected(<<"Model deserialization failed: ">>
                                \o DeserializeMessage(serializedModel), rows))
        ELSE IF version # Undefined
        THEN Outcome(storeModelVersion(rows, modelName, serializedModel, version.n \div 1000))
        ELSE Outcome(storeModelVersion(rows, modelName, serializedModel,
                                       NextVersion(getLatestModelVersion(rows, modelName))))
  IN IF ~validateDataModel(m).isValid
     THEN Outcome(Rejected(<<"Model validation failed: ">>
                             \o JoinErrors(validateDataModel(m).errors), rows))
     ELSE Store(serializeValidationModel(m))

\* PV.getModelVersion(modelName, version): the model, or the rejection
PV_getModelVersion(rows, modelName, version) ==
  LET Loaded(loadedModel, doc) ==
        IF loadedModel.threw
        THEN Rejected(<<"Failed to get model version: ">> \o DeserializeMessage(doc), rows)
        ELSE Resolved(loadedModel.v, rows)
      Of(modelVersion) ==
        IF modelVersion = Null
        THEN Rejected(<<"Failed to get model version: ", "Model ", modelName, " version ",
                        ToString(version), " not found">>, rows)
        ELSE Loaded(deserializeValidationModel(modelVersion.model), modelVersion.model)
  IN Of(getModelVersion(rows, modelName, version))

---------------------------------------------------------------------------
(* Calls of PV and MongoStorage, one after another, on one collection      *)

ModelNames == {"user", "order"}

\* The names PV.storeModel is called with; the other name is written by
\* MongoStorage.insertModel and updateModel only
StoreNames == {"user"}

\* The versions a caller names
ExplicitVersions == {1, 3}

\* a < b when b is given, and the same rule without its dependency
LessModel == GeneratedModel(<<"less">>, FALSE)
PlainModel == GeneratedModel(<<>>, FALSE)

\* A dependsOn entry without validate
MissingValidateModel ==
  Obj(<<KV("a", Rule(<<KV("type", S("N")),
                       KV("dependsOn", Obj(<<KV("field", S("b")), KV("condition", Defined),
                                             KV("message", S("m1"))>>))>>)),
        KV("b", Rule(<<KV("type", S("N")), KV("optional", True)>>))>>)

\* Models handed to PV.storeModel, and to MongoStorage directly
StoreModels == {LessModel, PlainModel, MissingValidateModel, ArrowDefaultModel}
DirectModels == {MissingValidateModel}

StoreData == {Obj(<<KV("a", Whole(100)), KV("b", Whole(100))>>)}

VersionArguments == {Undefined} \cup {Whole(v) : v \in ExplicitVersions}

validationVars == <<pc, model, data, allowUnknown, result, second, serialized, loaded,
                    loadedResult, fnText, fnResult>>

\* The last call: its arguments, the collection before it, and its outcome
Answer(op, name, version, input, response) ==
  [op |-> op, name |-> name, version |-> version, input |-> input, before |-> collection,
   response |-> response]

\* What a call of the storage settles with, without the collection
Settled(out) ==
  [response |-> [threw |-> out.threw, message |-> out.message, v |-> out.v],
   rows |-> out.rows]

\* A call that writes: the collection it leaves and its outcome
Written(op, name, version, input, out) ==
  /\ collection' = out.rows
  /\ answer' = Answer(op, name, version, input, out.response)

InitStore ==
  /\ pc = "store"
  /\ collection = <<>>
  /\ answer = NoResult
  /\ model = NoResult
  /\ data = NoResult
  /\ allowUnknown = FALSE
  /\ result = NoResult
  /\ second = NoResult
  /\ serialized = NoResult
  /\ loaded = NoResult
  /\ loadedResult = NoResult
  /\ fnText = <<>>
  /\ fnResult = NoResult
  /\ instance = NoResult
  /\ databases = NoResult
  /\ tasks = NoResult

\* await pv.storeModel(name, m, version)
StoreModel ==
  /\ Len(collection) < MaxRows
  /\ \E name \in StoreNames, m \in StoreModels, version \in VersionArguments :
       Written("storeModel", name, version, m, storeModel(collection, name, m, version))
  /\ UNCHANGED <<validationVars, processVars>>

\* await storage.insertModel(name, m)
InsertModel ==
  /\ Len(collection) < MaxRows
  /\ \E name \in ModelNames, m \in DirectModels :
       Written("insertModel", name, Undefined, m,
               Settled(insertModel(collection, name, m)))
  /\ UNCHANGED <<validationVars, processVars>>

\* await storage.updateModel(name, m)
UpdateModel ==
  /\ Len(collection) < MaxRows
  /\ \E name \in ModelNames, m \in DirectModels :
       Written("updateModel", name, Undefined, m,
               Settled(updateModel(collection, name, m)))
  /\ UNCHANGED <<validationVars, processVars>>

\* await storage.deleteModel(name)
DeleteModel ==
  /\ \E name \in ModelNames :
       /\ collection' = deleteModel(collection, name)
       /\ answer' = Answer("deleteModel", name, Undefined, Undefined, Undefined)
  /\ UNCHANGED <<validationVars, processVars>>

\* await pv.validateDynamic(d, name, version)
ValidateDynamic ==
  /\ \E name \in ModelNames, version \in VersionArguments, d \in StoreData :
       answer' = Answer("validateDynamic", name, version, d,
                        validateDynamic(collection, d, name, version))
  /\ UNCHANGED <<collection, validationVars, processVars>>

\* await pv.getModelVersion(name, version)
GetModelVersion ==
  /\ \E name \in ModelNames, v \in ExplicitVersions :
       answer' = Answer("getModelVersion", name, Whole(v), Undefined,
                        Settled(PV_getModelVersion(collection, name, v)).response)
  /\ UNCHANGED <<collection, validationVars, processVars>>

\* await storage.listModelVersions(name)
ListModelVersions ==
  /\ \E name \in ModelNames :
       answer' = Answer("listModelVersions", name, Undefined, Undefined,
                        listModelVersions(collection, name))
  /\ UNCHANGED <<collection, validationVars, processVars>>

\* pv.validateStatic(d, m)
ValidateStatic ==
  /\ \E m \in StoreModels, d \in StoreData :
       answer' = Answer("validateStatic", "", Undefined, [data |-> d, model |-> m],
                        validateStatic(d, m))
  /\ UNCHANGED <<collection, validationVars, processVars>>

NextStore ==
  \/ StoreModel \/ InsertModel \/ UpdateModel \/ DeleteModel
  \/ ValidateDynamic \/ GetModelVersion \/ ListModelVersions \/ ValidateStatic

SpecStore == InitStore /\ [][NextStore]_vars

---------------------------------------------------------------------------
(* Properties of the versioned storage                                     *)

\* The documents of a name and version
RowsOf(rows, name, version) ==
  SelectSeq(rows, LAMBDA r : r.name = name /\ r.version = version)

\* Whether a text occurs in a message
Contains(message, text) ==
  \E i \in 0..(Len(message) - Len(text)) : SubSeq(message, i + 1, i + Len(text)) = text

\* Whether PV.storeModel lets a model through to the storage
PassesGate(m) ==
  /\ validateDataModel(m).isValid
  /\ ~deserializeValidationModel(serializeValidationModel(m)).threw

AlreadyExists(name, version) ==
  <<"Version ", ToString(version), " already exists for model ", name>>

\* C12: storing under a (modelName, version) for which a document exists
\* fails: PV.storeModel returns isValid false (with the storage's 'Version
\* ... already exists' message when the model itself is storable), a direct
\* MongoStorage.insertModel rejects with that message, the collection is
\* left as it was, and no name holds two documents of one version.
C12_ExistingVersionIsRefused ==
  /\ \A i \in 1..Len(collection) :
       Len(RowsOf(collection, collection[i].name, collection[i].version)) = 1
  /\ (/\ answer # NoResult
      /\ answer.op = "storeModel"
      /\ answer.version # Undefined
      /\ RowsOf(answer.before, answer.name, answer.version.n \div 1000) # <<>>)
     => /\ ~answer.response.isValid
        /\ collection = answer.before
        /\ PassesGate(answer.input)
           => answer.response.errors =
                <<<<"Failed to store model: ">>
                    \o AlreadyExists(answer.name, answer.version.n \div 1000)>>
  /\ (/\ answer # NoResult
      /\ answer.op = "insertModel"
      /\ RowsOf(answer.before, answer.name, 1) # <<>>)
     => /\ answer.response.threw
        /\ answer.response.message = AlreadyExists(answer.name, 1)
        /\ collection = answer.before

\* A storable model is stored under a version that holds another model
C12_SecondStoreRefused ==
  /\ answer # NoResult
  /\ answer.op = "storeModel"
  /\ answer.version = Whole(3)
  /\ PassesGate(answer.input)
  /\ RowsOf(answer.before, answer.name, 3) # <<>>
  /\ RowsOf(answer.before, answer.name, 3)[1].model # serializeValidationModel(answer.input)
  /\ ~answer.response.isValid
  /\ collection = answer.before

\* The versions n, n-1, ..., 1
RECURSIVE CountDown(_)
CountDown(n) == IF n = 0 THEN <<>> ELSE <<n>> \o CountDown(n - 1)

\* The highest version a name holds, 0 when it holds none
HighestVersion(rows, name) ==
  IF FindByName(rows, name) = <<>> THEN 0
  ELSE CHOOSE v \in {FindByName(rows, name)[i].version : i \in 1..Len(FindByName(rows, name))} :
         \A i \in 1..Len(FindByName(rows, name)) : FindByName(rows, name)[i].version <= v

\* C13: a PV.storeModel without version that succeeds adds exactly one
\* document, under the highest version of the name plus one (1 for a name
\* without documents), holding the model of that call, which is then the
\* latest version of the name; so version-less stores on a name that holds
\* the versions 1..k leave it with 1..k+1.
C13_VersionlessStoreTakesNextVersion ==
  (/\ answer # NoResult
   /\ answer.op = "storeModel"
   /\ answer.version = Undefined
   /\ answer.response.isValid)
  => /\ collection =
          Append(answer.before,
                 Row(answer.name, HighestVersion(answer.before, answer.name) + 1,
                     serializeValidationModel(answer.input)))
     /\ getLatestModelVersion(collection, answer.name).model
          = serializeValidationModel(answer.input)
     /\ \A k \in 0..MaxRows :
          listModelVersions(answer.before, answer.name) = CountDown(k)
          => listModelVersions(collection, answer.name) = CountDown(k + 1)

\* The second of two version-less stores on a name: the versions are 1 and 2,
\* and the latest is the model of the second call
C13_SecondVersionlessStore ==
  /\ answer # NoResult
  /\ answer.op = "storeModel"
  /\ answer.version = Undefined
  /\ answer.response.isValid
  /\ answer.input = PlainModel
  /\ answer.before = <<Row(answer.name, 1, serializeValidationModel(LessModel))>>
  /\ listModelVersions(collection, answer.name) = <<2, 1>>

\* The document of a name with the highest version
HighestRow(rows, name) ==
  RowsOf(rows, name, HighestVersion(rows, name))[1]

\* The response of a validation against a stored text: that of
\* validateAgainstModel with the rebuilt model, or a load error
ValidatedAgainst(response, serializedModel, d) ==
  IF deserializeValidationModel(serializedModel).threw
  THEN /\ ~response.isValid
       /\ Len(response.errors) = 1
       /\ response.errors[1].field = <<"model">>
       /\ SubSeq(response.errors[1].message.s, 1, 1) = <<"Failed to load model: ">>
  ELSE response = Caught(validateAgainstModel(d, deserializeValidationModel(serializedModel).v,
                                              FALSE, <<>>))

\* C14: PV.validateDynamic without version validates the data against the
\* document of the name with the highest version, whatever the order the
\* versions were stored in, and with a version against the document of
\* exactly that version.
C14_DynamicValidationPicksVersion ==
  (answer # NoResult /\ answer.op = "validateDynamic")
  => /\ collection = answer.before
     /\ (answer.version = Undefined /\ FindByName(collection, answer.name) # <<>>)
        => ValidatedAgainst(answer.response, HighestRow(collection, answer.name).model,
                            answer.input)
     /\ (/\ answer.version # Undefined
         /\ RowsOf(collection, answer.name, answer.version.n \div 1000) # <<>>)
        => ValidatedAgainst(answer.response,
                            RowsOf(collection, answer.name, answer.version.n \div 1000)[1].model,
                            answer.input)

\* Version 3 is stored before version 1: a validation without version fails
\* by the rule of version 3, which version 1 does not have
C14_HighestStoredFirst ==
  /\ answer # NoResult
  /\ answer.op = "validateDynamic"
  /\ answer.version = Undefined
  /\ collection = <<Row("user", 3, serializeValidationModel(LessModel)),
                    Row("user", 1, serializeValidationModel(PlainModel))>>
  /\ answer.response.errors = <<Error(<<"a">>, S("m1"))>>
  /\ validateDynamic(collection, answer.input, "user", Whole(1)).isValid

\* The positions of the documents of a name
PositionsOf(rows, name) == {i \in 1..Len(rows) : rows[i].name = name}

\* C15: MongoStorage.listModelVersions returns the version of every document
\* of the name exactly once, in strictly descending order, whatever the order
\* they were stored in, and the empty list for a name without documents.
C15_VersionsListedDescending ==
  (answer # NoResult /\ answer.op = "listModelVersions")
  => LET versions == answer.response
     IN /\ \A i, j \in 1..Len(versions) : i < j => versions[i] > versions[j]
        /\ {versions[i] : i \in 1..Len(versions)}
             = {collection[i].version : i \in PositionsOf(collection, answer.name)}
        /\ Len(versions) = Cardinality(PositionsOf(collection, answer.name))
        /\ PositionsOf(collection, answer.name) = {} => versions = <<>>

\* The versions 3, 1 and 4 of a name, stored in that order, are listed 4, 3, 1
C15_OutOfOrderStoresListed ==
  /\ answer # NoResult
  /\ answer.op = "listModelVersions"
  /\ answer.name = "user"
  /\ [i \in 1..Len(collection) |-> collection[i].version] = <<3, 1, 4>>
  /\ answer.response = <<4, 3, 1>>

\* Whether a validateDynamic call names a model or version without document
NamesMissingModel(call) ==
  IF call.version = Undefined THEN PositionsOf(call.before, call.name) = {}
  ELSE RowsOf(call.before, call.name, call.version.n \div 1000) = <<>>

AddedBy(call) == SubSeq(collection, Len(call.before) + 1, Len(collection))

\* C17: PV.storeModel is a fail-fast gate: when validateDataModel rejects the
\* model, or the serialized model does not deserialize to a structurally
\* valid model, it returns isValid false and writes nothing; a call that
\* returns isValid false leaves the collection as it was, and every document
\* a call adds holds a text that deserializes without error to a
\* structurally valid model.
C17_OnlyLoadableModelsAreStored ==
  (answer # NoResult /\ answer.op = "storeModel")
  => /\ ~PassesGate(answer.input)
        => ~answer.response.isValid /\ collection = answer.before
     /\ ~answer.response.isValid => collection = answer.before
     /\ \A i \in 1..Len(AddedBy(answer)) :
          /\ ~deserializeObject(AddedBy(answer)[i].model).threw
          /\ validateDataModel(deserializeObject(AddedBy(answer)[i].model).v).isValid

\* A model that validateDataModel accepts but that does not survive the
\* round trip (its default is `() => true`) is refused without a write
C17_SelfTestRefusesModel ==
  /\ answer # NoResult
  /\ answer.op = "storeModel"
  /\ answer.input = ArrowDefaultModel
  /\ validateDataModel(answer.input).isValid
  /\ answer.response.errors =
       <<<<"Failed to store model: ", "Model deserialization failed: ",
           "Failed to deserialize function: ", "...">>>>
  /\ collection = answer.before
  /\ collection # <<>>

\* A dependsOn entry without a callable condition, a callable validate or a
\* non-empty field
IsBrokenEntry(dep) ==
  \/ ~IsFunction(Prop(dep, "condition"))
  \/ ~IsFunction(Prop(dep, "validate"))
  \/ ~Truthy(Prop(dep, "field"))

\* Whether a rule of the model has such an entry
HasBrokenDependency(m) ==
  \E i \in 1..Len(Keys(m)) :
    /\ HasDeps(GetKey(m, Keys(m)[i]))
    /\ \E j \in 1..Len(Deps(GetKey(m, Keys(m)[i]))) :
         IsBrokenEntry(Deps(GetKey(m, Keys(m)[i]))[j])

\* The stored text a validateDynamic call reads, when there is one
SelectedText(call) ==
  IF call.version = Undefined THEN HighestRow(call.before, call.name).model
  ELSE RowsOf(call.before, call.name, call.version.n \div 1000)[1].model

---------------------------------------------------------------------------
(* Properties of the rebuilt dependencies                                  *)

\* Whether a rebuilt entry has callables and the scalar properties of the
\* entry it was serialized from
RebuiltAs(original, rebuilt) ==
  /\ IsFunction(Prop(rebuilt, "condition"))
  /\ IsFunction(Prop(rebuilt, "validate"))
  /\ Prop(rebuilt, "field") = Prop(original, "field")
  /\ Prop(rebuilt, "message") = Prop(original, "message")
  /\ Prop(rebuilt, "isRequired") = Prop(original, "isRequired")
  /\ Prop(rebuilt, "optional") = Prop(original, "optional")

\* C19: deserializing the serialized model rebuilds every dependsOn entry of
\* a rule (a single entry or a list) with callable condition and validate and
\* with its field, its message and its isRequired / optional flag unchanged.
C19_DependencyEntriesRebuilt ==
  (/\ pc \in {"deserialized", "done"}
   /\ Untouched
   /\ ~loaded.threw)
  => \A i \in 1..Len(Keys(model)) :
       /\ Len(EntriesOf(loaded.v, Keys(model)[i])) = Len(EntriesOf(model, Keys(model)[i]))
       /\ \A j \in 1..Len(EntriesOf(model, Keys(model)[i])) :
            RebuiltAs(EntriesOf(model, Keys(model)[i])[j],
                      EntriesOf(loaded.v, Keys(model)[i])[j])

---------------------------------------------------------------------------
(* Properties of the dependent values under defaults                       *)

\* The rule a model declares for a path of names
RECURSIVE RuleAt(_, _)
RuleAt(m, parts) ==
  IF parts = <<>> \/ m.t # "object" THEN Undefined
  ELSE IF Len(parts) = 1 THEN GetKey(m, <<parts[1]>>)
  ELSE RuleAt(Prop(GetKey(m, <<parts[1]>>), "fields"), Tail(parts))

\* The path a logged call of a condition or validate reads its dependent
\* value from
DependentPath(call) ==
  IF call.kind = "presence" THEN PresenceDepPath(call.field, <<>>)
  ELSE ExpectedDepPath(call.field, call.path)

\* Whether the dependent field of a logged call is absent from the input
\* while its rule declares a default
DependsOnDefaulted(call) ==
  /\ IsUndefined(getNestedValue(data, DependentPath(call)))
  /\ ~IsUndefined(Prop(RuleAt(model, SplitPath(DependentPath(call))), "default"))

\* C20: every call of a dependsOn condition or validate gets its dependent
\* value from the data after default application, so that a dependency on a
\* field that is absent from the input and whose rule declares a default
\* receives the default and never undefined.
C20_DependenciesSeeDefaults ==
  (result # NoResult /\ ~result.threw)
  => \A i \in 1..Len(result.calls) :
       result.calls[i].kind \in {"presence", "condition", "validate"}
       => /\ result.calls[i].dep
               = getNestedValue(applyDefaults(data, model).v, DependentPath(result.calls[i]))
          /\ DependsOnDefaulted(result.calls[i])
             => result.calls[i].dep
                  = DefaultOf(RuleAt(model, SplitPath(DependentPath(result.calls[i]))))

---------------------------------------------------------------------------
(* Properties of the error paths                                           *)

\* The fields of the errors of a response, in order
ErrorFields(response) == [k \in 1..Len(response.errors) |-> response.errors[k].field]

\* 'f[i]' and 'f[i].k'
ElementField(f, i) == <<f, "[", ToString(i), "]">>
SubField(path, k) == path \o <<".", k>>

\* The paths of the elements of a list that satisfy a predicate given as the
\* set of failing values
RECURSIVE FailingElements(_, _, _, _)
FailingElements(f, items, i, failing) ==
  IF i > Len(items) THEN <<>>
  ELSE (IF items[i] \in failing THEN <<ElementField(f, i - 1)>> ELSE <<>>)
       \o FailingElements(f, items, i + 1, failing)

\* C21: an element i of a list field f that violates the item rule is
\* reported under the field 'f[i]', a sub-field k of a map element under
\* 'f[i].k', and a field f nested in a map p under 'p.f': a list of dates
\* yields one error per invalid element, at its index and in order (the list
\* ['2024-01-01', 'x', '2024-05-15'] yields 'dates[1]' first and nothing for
\* the indexes 0 and 2), a list of students one error per element at
\* 'students[i].status', and the nested profile only errors of its own fields.
C21_ElementErrorPaths ==
  (result # NoResult /\ ~result.threw /\ ReachedFields)
  => /\ model = DatesModel
        => SelectSeq(ErrorFields(result), LAMBDA field : field[1] = "dates")
             = FailingElements("dates", Prop(data, "dates").items, 1, {S("x")})
     /\ model = StudentsModel
        => ErrorFields(result)
             = [i \in 1..Len(Prop(data, "students").items) |->
                  SubField(ElementField("students", i - 1), "status")]
     /\ model = NestedModel
        => \A k \in 1..Len(result.errors) :
             result.errors[k].field \in {<<"user", ".", "profile", ".", "age">>,
                                         <<"user", ".", "profile", ".", "canDrink">>}

\* The list of three dates with an invalid second element
C21_SecondDateInvalid ==
  /\ model = DatesModel
  /\ data = Obj(<<KV("dates", Arr(<<S("2024-01-01"), S("x"), S("2024-05-15")>>))>>)
  /\ result # NoResult
  /\ ~result.isValid
  /\ result.errors[1].field = <<"dates", "[", "1", "]">>
  /\ ErrorsAt(result, <<"dates", "[", "0", "]">>) = <<>>
  /\ ErrorsAt(result, <<"dates", "[", "2", "]">>) = <<>>

---------------------------------------------------------------------------
(* The validator instance of the process                                   *)

MaxStored == 2

\* The storages of the process; PV.getInstance() passes undefined
Storages == {"primary", "secondary"}
\* new MongoStorage(db)
MongoStorage(db) == [db |-> db]

StorageArguments == {Undefined} \cup {MongoStorage(db) : db \in Storages}

InstanceModels == {PlainModel, LessModel}

\* new PV(storage)
NewPV(storage) == [storage |-> storage]

\* PV.getInstance(storage): the validator it returns, which is also the
\* static PV.instance after the call
getInstance(current, storage) == IF current = Null THEN NewPV(storage) ELSE current

\* validator.storeModel(modelName, model) on the storages dbs
InstanceStoreModel(validator, dbs, modelName, m) ==
  IF validator.storage = Undefined
  THEN [response |-> NotStored(<<"Storage is required for model storage">>), dbs |-> dbs]
  ELSE [response |-> storeModel(dbs[validator.storage.db], modelName, m, Undefined).response,
        dbs |-> [dbs EXCEPT ![validator.storage.db] =
                   storeModel(dbs[validator.storage.db], modelName, m, Undefined).rows]]

\* validator.validateDynamic(data, modelName): without a storage the promise
\* is rejected
InstanceValidateDynamic(validator, dbs, d, modelName) ==
  IF validator.storage = Undefined THEN Exception
  ELSE validateDynamic(dbs[validator.storage.db], d, modelName, Undefined)

\* The last call on the validator returned by PV.getInstance(passed)
InstanceAnswer(op, passed, input, response) ==
  [op |-> op, passed |-> passed, input |-> input, before |-> databases,
   response |-> response]

InitInstance ==
  /\ pc = "instance"
  /\ instance = Null
  /\ databases = [s \in Storages |-> <<>>]
  /\ answer = NoResult
  /\ collection = <<>>
  /\ tasks = NoResult
  /\ model = NoResult
  /\ data = NoResult
  /\ allowUnknown = FALSE
  /\ result = NoResult
  /\ second = NoResult
  /\ serialized = NoResult
  /\ loaded = NoResult
  /\ loadedResult = NoResult
  /\ fnText = <<>>
  /\ fnResult = NoResult

\* const validator = PV.getInstance(storage)
GetInstance ==
  /\ \E storage \in StorageArguments :
       /\ instance' = getInstance(instance, storage)
       /\ answer' = InstanceAnswer("getInstance", storage, Undefined, Undefined)
  /\ UNCHANGED <<databases, collection, tasks, validationVars>>

\* What a call on the returned validator leaves behind
InstanceWritten(passed, m, out) ==
  /\ databases' = out.dbs
  /\ answer' = InstanceAnswer("storeModel", passed, m, out.response)

\* await PV.getInstance(storage).storeModel('user', m)
GetInstanceAndStore ==
  /\ \E storage \in StorageArguments, m \in InstanceModels :
       /\ \A s \in Storages : Len(databases[s]) < MaxStored
       /\ instance' = getInstance(instance, storage)
       /\ InstanceWritten(storage, m,
                          InstanceStoreModel(getInstance(instance, storage), databases,
                                             "user", m))
  /\ UNCHANGED <<collection, tasks, validationVars>>

\* await PV.getInstance(storage).validateDynamic(d, 'user')
GetInstanceAndValidate ==
  /\ \E storage \in StorageArguments, d \in StoreData :
       /\ instance' = getInstance(instance, storage)
       /\ answer' = InstanceAnswer("validateDynamic", storage, d,
                                   InstanceValidateDynamic(getInstance(instance, storage),
                                                           databases, d, "user"))
  /\ UNCHANGED <<databases, collection, tasks, validationVars>>

NextInstance == GetInstance \/ GetInstanceAndStore \/ GetInstanceAndValidate

SpecInstance == InitInstance /\ [][NextInstance]_vars

\* C22: a storeModel or validateDynamic on the validator returned by
\* PV.getInstance(storage) operates on the storage passed to that call,
\* whatever PV.getInstance calls came before: storeModel leaves the storages
\* as a store into the passed one does and answers as that store does, and
\* validateDynamic answers from the rows of the passed storage.
C22_InstanceUsesPassedStorage ==
  (answer # NoResult /\ answer.passed # Undefined)
  => /\ answer.op = "storeModel"
        => /\ databases
                = [answer.before EXCEPT ![answer.passed.db] =
                     storeModel(answer.before[answer.passed.db], "user", answer.input,
                                Undefined).rows]
           /\ answer.response
                = storeModel(answer.before[answer.passed.db], "user", answer.input,
                             Undefined).response
     /\ answer.op = "validateDynamic"
        => answer.response
             = validateDynamic(answer.before[answer.passed.db], answer.input, "user", Undefined)

---------------------------------------------------------------------------
(* Properties of the type check                                            *)

\* The top-level keys of the model whose value is present and is not of the
\* basic tag the rule names
WrongType(value, tag) ==
  CASE tag = S("N") -> value.t # "number" \/ value.k = "nan"
    [] tag = S("S") -> value.t # "string"
    [] tag = S("B") -> value.t # "boolean"
    [] tag = S("M") -> value.t # "object"
    [] tag = S("L") -> value.t # "array"
    [] OTHER -> FALSE

FailsType(i) ==
  /\ model.entries[i].v.t = "object"
  /\ ~IsUndefined(GetKey(data, model.entries[i].k))
  /\ WrongType(GetKey(data, model.entries[i].k), Prop(model.entries[i].v, "type"))

\* The positions of the errors reported for a path or below it
ErrorPositions(response, path) ==
  {k \in 1..Len(response.errors) :
     /\ Len(response.errors[k].field) >= Len(path)
     /\ SubSeq(response.errors[k].field, 1, Len(path)) = path}

\* C23: a present value that fails its type check gets exactly one error,
\* 'Invalid type, ...', under its own path and none below it, none of its
\* dependency or standalone callbacks is called, and the other fields are
\* still validated in declaration order: of two fields that fail their type
\* check both are reported, the one declared first before the other.
C23_TypeFailureIsTerminal ==
  (result # NoResult /\ ~result.threw /\ ReachedFields)
  => \A i \in 1..Len(model.entries) :
       FailsType(i)
       => /\ Cardinality(ErrorPositions(result, model.entries[i].k)) = 1
          /\ Len(ErrorsAt(result, model.entries[i].k)) = 1
          /\ ErrorsAt(result, model.entries[i].k)[1].message.s[1] = "Invalid type, expected "
          /\ \A c \in 1..Len(result.calls) : result.calls[c].path # model.entries[i].k
          /\ \A j \in 1..Len(model.entries) :
               (i < j /\ FailsType(j))
               => \A a \in ErrorPositions(result, model.entries[i].k),
                     b \in ErrorPositions(result, model.entries[j].k) : a < b

\* Both fields of the circular model are strings: two errors, min first; a
\* string in place of the map order; a string for a number with dependencies
C23_BothFieldsInvalid ==
  /\ model = CircularModel
  /\ data = Obj(<<KV("min", S("x")), KV("max", S("x"))>>)
  /\ result # NoResult
  /\ Len(result.errors) = 2
  /\ result.errors[1].field = <<"min">>
  /\ result.errors[2].field = <<"max">>
  /\ result.calls = <<>>

---------------------------------------------------------------------------
(* Properties of the stored versions                                      *)

\* The calls that store a version
IsStoreCall(call) == call # NoResult /\ call.op \in {"storeModel", "insertModel", "updateModel"}

\* C24: versions are additive.  A storeModel, storeModelVersion, insertModel
\* or updateModel call, failed or not, leaves every document that was stored
\* before it in place with its content, so getModelVersion answers for every
\* stored (name, version) as it did before the call.
C24_StoredVersionsAreKept ==
  IsStoreCall(answer)
  => /\ Len(collection) >= Len(answer.before)
     /\ SubSeq(collection, 1, Len(answer.before)) = answer.before
     /\ \A name \in ModelNames, v \in 1..(MaxRows + 1) :
          getModelVersion(answer.before, name, v) # Null
          => getModelVersion(collection, name, v) = getModelVersion(answer.before, name, v)

\* A store of another model under a version that exists is refused and the
\* stored model is still the first one; a later version-less store adds a row
C24_OtherModelUnderStoredVersion ==
  /\ IsStoreCall(answer)
  /\ answer.op = "storeModel"
  /\ answer.version = Whole(1)
  /\ getModelVersion(answer.before, answer.name, 1) # Null
  /\ getModelVersion(answer.before, answer.name, 1).model
       # serializeValidationModel(answer.input)
  /\ PassesGate(answer.input)
  /\ ~answer.response.isValid
  /\ getModelVersion(collection, answer.name, 1) = getModelVersion(answer.before, answer.name, 1)

---------------------------------------------------------------------------
(* The calls of validateValue, one step per call                           *)

MaxVisits == 16

\* One pending call validateValue(value, rule, path)
Frame(value, rule, path) == [value |-> value, rule |-> rule, path |-> path]

\* The calls validateValue(value, rule, path) makes itself: one per element
\* for a composite tag or a rule with items, one per declared sub-field for a
\* rule with fields; an undefined value, a rule without a type, a failed type
\* check and a rule written as a string make none
NestedCalls(value, rule, path) ==
  LET typeIndicator == IF rule.t = "string" THEN rule ELSE Prop(rule, "type")
      Elements(itemRule) ==
        [i \in 1..Len(value.items) |-> Frame(value.items[i], itemRule, ItemPath(path, i - 1))]
      Items ==
        IF Truthy(Prop(rule, "items")) /\ value.t = "array"
        THEN Elements(Prop(rule, "items")) ELSE <<>>
      Fields ==
        IF Truthy(Prop(rule, "fields")) /\ TypeOf(value) = "object"
        THEN [i \in 1..Len(Prop(rule, "fields").entries) |->
                Frame(ValueAt(value, Prop(rule, "fields").entries[i].k),
                      Prop(rule, "fields").entries[i].v,
                      Join(path, Prop(rule, "fields").entries[i].k))]
        ELSE <<>>
  IN IF IsUndefined(value) \/ ~Truthy(typeIndicator) THEN <<>>
     ELSE IF parseArrayType(typeIndicator.s).isArray
     THEN IF value.t # "array" THEN <<>>
          ELSE Elements(Str(parseArrayType(typeIndicator.s).elementType))
     ELSE IF ~validateType(value, typeIndicator.s, rule) \/ rule.t = "string" THEN <<>>
     ELSE Items \o Fields

\* A variant in which evaluating a dependency on a top-level field validates
\* that field with its own rule
ReenteringCalls(value, rule, path) ==
  NestedCalls(value, rule, path)
    \o (IF IsUndefined(value) \/ ~HasDeps(rule) THEN <<>>
        ELSE LET deps == SelectSeq(Deps(rule),
                                   LAMBDA dep : HasKey(model, DepPath(Prop(dep, "field").s, path)))
             IN [i \in 1..Len(deps) |->
                   Frame(GetKey(data, DepPath(Prop(deps[i], "field").s, path)),
                         GetKey(model, DepPath(Prop(deps[i], "field").s, path)),
                         DepPath(Prop(deps[i], "field").s, path))])

\* The recursive calls of one call of validateValue: of the items, then of
\* the fields; the dependencies read their values with getNestedValue
DirectCalls(value, rule, path) == NestedCalls(value, rule, path)

\* The calls of the field loop of validateAgainstModel, none when
\* applyDefaults throws
FieldCalls(d, m) ==
  IF applyDefaults(d, m).threw THEN <<>>
  ELSE [i \in 1..Len(m.entries) |->
          Frame(TopValue(applyDefaults(d, m).v, m.entries[i].k), m.entries[i].v,
                m.entries[i].k)]

InitVisit ==
  /\ pc = "visit"
  /\ model \in FixedModels
  /\ data \in DataFor(model)
  /\ tasks = [stack |-> FieldCalls(data, model), visits |-> <<>>]
  /\ allowUnknown = TRUE
  /\ result = NoResult
  /\ second = NoResult
  /\ serialized = NoResult
  /\ loaded = NoResult
  /\ loadedResult = NoResult
  /\ fnText = <<>>
  /\ fnResult = NoResult
  /\ collection = <<>>
  /\ answer = NoResult
  /\ instance = NoResult
  /\ databases = NoResult

\* The next call of validateValue starts: its own calls are pending before
\* the calls that were pending when it started
Enter ==
  /\ pc = "visit"
  /\ tasks.stack # <<>>
  /\ Len(tasks.visits) < MaxVisits
  /\ tasks' = [stack |-> DirectCalls(Head(tasks.stack).value, Head(tasks.stack).rule,
                                     Head(tasks.stack).path)
                           \o Tail(tasks.stack),
               visits |-> Append(tasks.visits, Head(tasks.stack).path)]
  /\ UNCHANGED <<pc, model, data, allowUnknown, result, second, serialized, loaded,
                 loadedResult, fnText, fnResult, collection, answer, instance, databases>>

\* No call is pending: validateAgainstModel returns
Return ==
  /\ pc = "visit"
  /\ tasks.stack = <<>>
  /\ pc' = "returned"
  /\ UNCHANGED <<model, data, allowUnknown, result, second, serialized, loaded,
                 loadedResult, fnText, fnResult, collection, answer, processVars>>

NextVisit == Enter \/ Return

\* A call that has started runs to its end
SpecVisit == InitVisit /\ [][NextVisit]_vars /\ WF_vars(Enter) /\ WF_vars(Return)

\* No path is validated twice
VisitedOnce ==
  \A a, b \in 1..Len(tasks.visits) : tasks.visits[a] = tasks.visits[b] => a = b

\* C25: validateAgainstModel terminates for every data value and model of the
\* catalog, the models whose dependencies refer to each other included, and
\* no rule is entered twice for the same path: a dependency reads the other
\* field's value and does not validate it.
C25_ValidationTerminates == [](VisitedOnce) /\ <>(pc = "returned")

\* min and max depend on each other and both are present: two calls
C25_CircularModelReturned ==
  /\ model = CircularModel
  /\ data = Obj(<<KV("min", Num(0)), KV("max", Whole(50))>>)
  /\ pc = "returned"
  /\ tasks.visits = <<<<"min">>, <<"max">>>>

---------------------------------------------------------------------------
(* Concurrent stores: one step per await                                   *)

MaxCallers == 2
MaxRaceRows == 3

Callers == 1..MaxCallers
RaceModels == {PlainModel, MissingValidateModel}
RaceVersions == {1, 2}

\* What insertOne answers when a unique index on (name, version) exists and
\* a document with the key is stored
DuplicateKey == <<"E11000 duplicate key error">>

\* A caller that is not in a call
Idle == [pc |-> "idle", op |-> "", version |-> 0, serialized |-> Undefined,
         response |-> Undefined]

\* What a call settles with: PV.storeModel resolves with a response,
\* MongoStorage.storeModelVersion resolves with undefined or rejects
Finished(task, threw, message) ==
  [task EXCEPT !.pc = "done",
               !.response = IF task.op = "storeModel"
                            THEN (IF threw THEN NotStored(message) ELSE Stored)
                            ELSE [threw |-> threw, message |-> message, v |-> Undefined]]

\* pv.storeModel('user', m) up to its first await on the storage: a model the
\* gate refuses is answered at once
BegunStoreModel(m) ==
  IF storeModel(<<>>, "user", m, Undefined).response.isValid
  THEN [Idle EXCEPT !.pc = "latest", !.op = "storeModel",
                    !.serialized = serializeValidationModel(m)]
  ELSE [Idle EXCEPT !.pc = "done", !.op = "storeModel",
                    !.response = storeModel(<<>>, "user", m, Undefined).response]

\* storage.storeModelVersion('user', serializedModel, version) up to findOne
BegunStoreModelVersion(m, version) ==
  [Idle EXCEPT !.pc = "find", !.op = "storeModelVersion", !.version = version,
               !.serialized = serializeValidationModel(m)]

\* const latestVersion = await this.storage.getLatestModelVersion(modelName);
\* const newVersion = latestVersion ? latestVersion.version + 1 : 1
AfterLatest(task, latestVersion) ==
  [task EXCEPT !.pc = "find",
               !.version = IF latestVersion # Null THEN latestVersion.version + 1 ELSE 1]

\* const existingVersion = await col.findOne({ name, version });
\* if (existingVersion) throw new Error('Version ... already exists ...')
AfterFindOne(task, existingVersion) ==
  IF existingVersion # Null
  THEN Finished(task, TRUE,
                <<"Version ", ToString(task.version), " already exists for model ", "user">>)
  ELSE [task EXCEPT !.pc = "insert"]

\* await col.insertOne({ name, version, model, createdAt }): refused only by
\* a unique index, which the storage does not create
AfterInsertOne(task, rows, unique) ==
  IF unique /\ FindOne(rows, "user", task.version) # Null
  THEN [task |-> Finished(task, TRUE, DuplicateKey), rows |-> rows]
  ELSE [task |-> Finished(task, FALSE, <<>>),
        rows |-> Append(rows, Row("user", task.version, task.serialized))]

InitRace ==
  /\ pc = "race"
  /\ collection = <<>>
  /\ tasks = [c \in Callers |-> Idle]
  /\ databases \in {[uniqueIndex |-> unique] : unique \in BOOLEAN}
  /\ answer = {}
  /\ instance = NoResult
  /\ model = NoResult
  /\ data = NoResult
  /\ allowUnknown = FALSE
  /\ result = NoResult
  /\ second = NoResult
  /\ serialized = NoResult
  /\ loaded = NoResult
  /\ loadedResult = NoResult
  /\ fnText = <<>>
  /\ fnResult = NoResult

\* answer holds the operations that have been called so far
raceFrame == <<validationVars, instance, databases>>

\* A caller calls pv.storeModel('user', m)
BeginStoreModel(c) ==
  /\ tasks[c].pc \in {"idle", "done"}
  /\ Len(collection) < MaxRaceRows
  /\ \E m \in RaceModels : tasks' = [tasks EXCEPT ![c] = BegunStoreModel(m)]
  /\ answer' = answer \cup {"storeModel"}
  /\ UNCHANGED <<collection, raceFrame>>

\* A caller calls storage.storeModelVersion('user', serializedModel, version)
BeginStoreModelVersion(c) ==
  /\ tasks[c].pc \in {"idle", "done"}
  /\ Len(collection) < MaxRaceRows
  /\ \E m \in RaceModels, version \in RaceVersions :
       tasks' = [tasks EXCEPT ![c] = BegunStoreModelVersion(m, version)]
  /\ answer' = answer \cup {"storeModelVersion"}
  /\ UNCHANGED <<collection, raceFrame>>

\* The read of the latest version settles
ReadLatest(c) ==
  /\ tasks[c].pc = "latest"
  /\ tasks' = [tasks EXCEPT ![c] = AfterLatest(tasks[c],
                                               getLatestModelVersion(collection, "user"))]
  /\ UNCHANGED <<collection, answer, raceFrame>>

\* findOne settles
FindVersion(c) ==
  /\ tasks[c].pc = "find"
  /\ tasks' = [tasks EXCEPT ![c] = AfterFindOne(tasks[c],
                                                FindOne(collection, "user", tasks[c].version))]
  /\ UNCHANGED <<collection, answer, raceFrame>>

\* insertOne settles
InsertOne(c) ==
  /\ tasks[c].pc = "insert"
  /\ tasks' = [tasks EXCEPT ![c] =
                 AfterInsertOne(tasks[c], collection, databases.uniqueIndex).task]
  /\ collection' = AfterInsertOne(tasks[c], collection, databases.uniqueIndex).rows
  /\ UNCHANGED <<answer, raceFrame>>

NextRace ==
  \E c \in Callers :
     \/ BeginStoreModel(c)
     \/ BeginStoreModelVersion(c)
     \/ ReadLatest(c)
     \/ FindVersion(c)
     \/ InsertOne(c)

SpecRace == InitRace /\ [][NextRace]_vars

\* A call that was refused
Refused(task) ==
  /\ task.pc = "done"
  /\ \/ task.op = "storeModel" /\ ~task.response.isValid
     \/ task.op = "storeModelVersion" /\ task.response.threw

RefusalMessage(task) ==
  IF task.op = "storeModel" THEN task.response.errors[1] ELSE task.response.message

\* C26: under every interleaving of concurrent stores the collection holds at
\* most one document per (modelName, version), and a store that loses against
\* another store of the same version fails with 'already exists'.
C26_OneDocumentPerVersion ==
  /\ \A i, j \in 1..Len(collection) :
       (collection[i].name = collection[j].name
          /\ collection[i].version = collection[j].version) => i = j
  /\ \A c \in Callers :
       (Refused(tasks[c]) /\ tasks[c].version > 0)
       => Contains(RefusalMessage(tasks[c]), <<" already exists for model ">>)

\* C27: when only version-less PV.storeModel calls are made, under every
\* interleaving each call of a model that passes the gate answers isValid
\* true and the calls are assigned distinct versions.
C27_VersionlessStoresAllSucceed ==
  answer = {"storeModel"}
  => /\ \A c \in Callers :
          (tasks[c].pc = "done" /\ tasks[c].version > 0) => tasks[c].response.isValid
     /\ \A c, d \in Callers :
          (/\ c # d
           /\ tasks[c].pc = "done" /\ tasks[d].pc = "done"
           /\ tasks[c].response.isValid /\ tasks[d].response.isValid)
          => tasks[c].version # tasks[d].version

---------------------------------------------------------------------------
(* Properties of the presence check                                        *)

\* The data after default application, as the checks read it
DataWithDefaults == applyDefaults(data, model).v

\* C28: the presence check of an absent value hands the condition of an entry
\* whose field has no '.' the same sibling value that dependency evaluation
\* reads for a present value: the value next to the field, under the parent
\* of the field's own path.
C28_PresenceReadsSibling ==
  (result # NoResult /\ ~applyDefaults(data, model).threw)
  => \A i \in 1..Len(result.calls) :
       (result.calls[i].kind = "presence" /\ ~IncludesDot(result.calls[i].field))
       => result.calls[i].dep
            = getNestedValue(DataWithDefaults,
                             ExpectedDepPath(result.calls[i].field, result.calls[i].path))

\* Whether an entry flags the field as required: isRequired is set and the
\* condition holds for the dependent value
FlagsRequired(dep, depValue) ==
  /\ Truthy(Prop(dep, "isRequired"))
  /\ CallValue(Prop(dep, "condition"), <<depValue>>).kind = "return"
  /\ Truthy(CallValue(Prop(dep, "condition"), <<depValue>>).v)

\* A top-level field that is absent, whose rule is optional and which no
\* entry flags as required
OptionalAndAbsent(key) ==
  /\ GetKey(model, key).t = "object"
  /\ Truthy(Prop(GetKey(model, key), "optional"))
  /\ IsUndefined(GetKey(data, key))
  /\ \A i \in 1..Len(EntriesOf(model, key)) :
       ~FlagsRequired(EntriesOf(model, key)[i],
                      getNestedValue(DataWithDefaults,
                                     ExpectedDepPath(Prop(EntriesOf(model, key)[i], "field").s,
                                                     key)))

\* C29: an absent value of an optional rule that no dependsOn entry flags as
\* required gets no error, and no validate of its entries or of its rule is
\* called, also when the condition of an entry holds for the dependent value.
C29_OptionalAbsentIsSkipped ==
  (result # NoResult /\ ~applyDefaults(data, model).threw)
  => \A k \in 1..Len(model.entries) :
       OptionalAndAbsent(model.entries[k].k)
       => /\ ErrorsAt(result, model.entries[k].k) = <<>>
          /\ CallsAt(result, {"validate", "standalone"}, model.entries[k].k) = <<>>

\* a is optional and absent, b is given, and the condition of the only entry
\* of a holds for b: the condition was called and the data is valid
C29_ConditionHoldsForAbsentField ==
  /\ model = GeneratedModel(<<"comment">>, TRUE)
  /\ data = Obj(<<KV("b", Whole(100))>>)
  /\ result # NoResult
  /\ ~result.threw
  /\ result.isValid
  /\ Len(CallsAt(result, {"presence"}, <<"a">>)) = 1
  /\ CallsAt(result, {"presence"}, <<"a">>)[1].dep = Whole(100)

---------------------------------------------------------------------------
(* Properties of the type tags                                             *)

\* A rule written as a composite tag 'L<X>' with X a registered tag
IsCompositeTag(rule) ==
  /\ rule.t = "string"
  /\ parseArrayType(rule.s).isArray
  /\ parseArrayType(rule.s).elementType \in VALID_TYPES

\* C30: a model with a rule 'L<X>', X a registered tag, which
\* validateAgainstModel validates element by element, is reported valid by
\* validateDataModel, and PV.validateStatic does not answer with an error of
\* the model.
C30_CompositeTagIsAccepted ==
  (\E k \in 1..Len(model.entries) : IsCompositeTag(model.entries[k].v))
  => /\ validateDataModel(model).isValid
     /\ \A e \in 1..Len(validateStatic(data, model).errors) :
          validateStatic(data, model).errors[e].field # <<"model">>

====
